---- MODULE Spec2Model ----
(***************************************************************************)
(* A model of the transaction subsystem of arrdf (src/src/transaction/     *)
(* mod.rs) on top of the three-level HashGraph (src/src/hash_graph.rs)     *)
(* and the generic set operations (src/src/set.rs).                        *)
(*                                                                         *)
(* A Node is modelled by its equality class (Node::eq): a string.  A       *)
(* triple is a tuple <<subject, predicate, object>>.  An iterator over     *)
(* triples is modelled by the set of triples it yields (the order of a     *)
(* HashMap iteration is unspecified and no operation here depends on it).  *)
(*                                                                         *)
(* The specifications (they share the variables; each states what its      *)
(* variables hold):                                                        *)
(*   Spec          the threads' calls on a TransactionGraph and its        *)
(*                 queries;                                                *)
(*   WriterSpec    the calls of Spec that open, change and commit          *)
(*                 MutTransactions, alone;                                 *)
(*   GraphSpec     insert, remove and retain on a HashGraph of             *)
(*                 src/src/hash_graph/mod.rs owned by a single caller;     *)
(*   NodeSpec      the making, cloning and dropping of Nodes               *)
(*                 (src/src/node.rs) as text and allocation;               *)
(*   NodeGraphSpec inserts of such Nodes into a HashGraph;                 *)
(*   SanitizeSpec  inserts and sanitize on a graph of blank, literal and   *)
(*                 IRI nodes (src/src/graph.rs);                           *)
(*   LiveSpec      the blocking calls with their waiting made explicit,    *)
(*                 under fairness;                                         *)
(*   ReentrantSpec the blocking calls made by threads that may hold a      *)
(*                 guard of the lock already;                              *)
(*   CloneSpec     the calls through several clones of one                 *)
(*                 TransactionGraph, handles and cells made explicit;      *)
(*   PairSpec      insert, remove and retain on a two-level and a          *)
(*                 three-level HashGraph side by side;                     *)
(*   IterSpec      a HashTripleIter (src/src/hash.rs) over a graph built   *)
(*                 by add_triple and remove_triple.                        *)
(***************************************************************************)
EXTENDS Integers, FiniteSets, Sequences, TLC

\* The triples the threads use as arguments: (a,pa,b) of the Testbed, the
\* triple (a,pa,a) and (b,pb,b) inserted by the mut_transaction test.
TripleUniverse == { <<"a", "pa", "b">>, <<"a", "pa", "a">>, <<"b", "pb", "b">> }

\* The threads of the program and the CachedQuery objects they share.
Threads == {"t1", "t2"}
Queries == {"q1"}

\* Commits are counted up to this revision.
MaxRevision == 2

NoQuery == "none"

VARIABLES
    store,        \* IntTransactionGraph.graph : HashGraph
    revision,     \* IntTransactionGraph.revision
    wlocked,      \* the RwLock is held by a RwLockWriteGuard
    rcount,       \* number of live RwLockReadGuards
    poisoned,     \* the RwLock is poisoned
    pc,           \* per thread: what it holds / where it is
    added,        \* per thread: MutTransaction.added_triples
    removed,      \* per thread: MutTransaction.removed_triples
    tq,           \* per thread: the CachedQuery it is evaluating
    cq,           \* per CachedQuery: live, result, current_revision
    hist,         \* history: hist[n+1] is the store right after the n-th commit
    committed,    \* history: the view of the last transaction when commit() was called
    last          \* the last call on a handle or query that returned: the call, its
                  \* result, and whether it ran the query closure

vars == << store, revision, wlocked, rcount, poisoned, pc, added, removed,
           tq, cq, hist, committed, last >>

-----------------------------------------------------------------------------
(* HashMap helpers *)

EmptyMap == [x \in {} |-> {}]

MapPut(m, k, v) == [x \in (DOMAIN m) \cup {k} |-> IF x = k THEN v ELSE m[x]]

RECURSIVE SumOver(_, _)
SumOver(f, S) ==
    IF S = {} THEN 0
    ELSE LET x == CHOOSE y \in S : TRUE IN f[x] + SumOver(f, S \ {x})

-----------------------------------------------------------------------------
(* HashGraph: nodes : HashMap<Node, HashMap<Node, HashSet<Node>>> *)

HashGraph_new == EmptyMap

HashGraph_len(g) ==
    SumOver([s \in DOMAIN g |->
                SumOver([p \in DOMAIN g[s] |-> Cardinality(g[s][p])], DOMAIN g[s])],
            DOMAIN g)

HashGraph_is_empty(g) ==
    \A s \in DOMAIN g : \A p \in DOMAIN g[s] : g[s][p] = {}

\* contains that stops at the predicate's entry and does not look for the object
HashGraph_contains_entry(g, t) ==
    /\ t[1] \in DOMAIN g
    /\ t[2] \in DOMAIN g[t[1]]

HashGraph_contains(g, t) ==
    /\ t[1] \in DOMAIN g
    /\ t[2] \in DOMAIN g[t[1]]
    /\ t[3] \in g[t[1]][t[2]]

HashGraph_iter(g) ==
    UNION { UNION { { <<s, p, o>> : o \in g[s][p] } : p \in DOMAIN g[s] } : s \in DOMAIN g }

HashGraph_insert(g, t) ==
    LET rels == IF t[1] \in DOMAIN g THEN g[t[1]] ELSE EmptyMap
        objs == IF t[2] \in DOMAIN rels THEN rels[t[2]] ELSE {}
    IN  MapPut(g, t[1], MapPut(rels, t[2], objs \cup {t[3]}))

HashGraph_remove(g, t) ==
    IF t[1] \in DOMAIN g /\ t[2] \in DOMAIN g[t[1]]
    THEN MapPut(g, t[1], MapPut(g[t[1]], t[2], g[t[1]][t[2]] \ {t[3]}))
    ELSE g

\* HashGraph::retain: objects.retain(..) in every entry, no entry is dropped
HashGraph_retain(g, f) ==
    [s \in DOMAIN g |-> [p \in DOMAIN g[s] |-> { o \in g[s][p] : <<s, p, o>> \in f }]]

HashGraph_clear(g) == EmptyMap

HashGraph_into_iter(g) == HashGraph_iter(g)

\* Graph::extend, Graph::clone_extend and Graph::remove_all on a HashGraph
RECURSIVE HashGraph_extend(_, _)
HashGraph_extend(g, S) ==
    IF S = {} THEN g
    ELSE LET t == CHOOSE y \in S : TRUE
         IN  HashGraph_extend(HashGraph_insert(g, t), S \ {t})

HashGraph_clone_extend(g, S) == HashGraph_extend(g, S)

RECURSIVE HashGraph_remove_all(_, _)
HashGraph_remove_all(g, S) ==
    IF S = {} THEN g
    ELSE LET t == CHOOSE y \in S : TRUE
         IN  HashGraph_remove_all(HashGraph_remove(g, t), S \ {t})

\* Graph::retain, the trait's default: collect the triples for which f is
\* false, then remove_all of them
Graph_retain(g, f) ==
    LET removed_nodes == { t \in HashGraph_iter(g) : t \notin f }
    IN  HashGraph_remove_all(g, removed_nodes)

HashGraph_from_iter(S) == HashGraph_extend(HashGraph_new, S)

-----------------------------------------------------------------------------
(* set.rs, for two HashGraphs *)

difference(lhs, rhs) == { t \in HashGraph_iter(lhs) : ~HashGraph_contains(rhs, t) }

intersection(lhs, rhs) == { t \in HashGraph_iter(lhs) : HashGraph_contains(rhs, t) }

is_subset(lhs, rhs) == \A t \in HashGraph_iter(lhs) : HashGraph_contains(rhs, t)

\* is_superset without the exchange of its arguments
is_superset_unswapped(lhs, rhs) == is_subset(lhs, rhs)

is_superset(lhs, rhs) == is_subset(rhs, lhs)

is_disjoint(lhs, rhs) == intersection(lhs, rhs) = {}

-----------------------------------------------------------------------------
(* MutTransaction: g is guard.graph, tx = [added, removed] *)

MutTransaction_new == [added |-> HashGraph_new, removed |-> HashGraph_new]

is_valid(g, tx) == is_subset(tx.removed, g) /\ is_disjoint(g, tx.added)

\* MutTransaction_len without the subtraction of removed_triples.len()
MutTransaction_len_ignoring_removed(g, tx) ==
    HashGraph_len(g) + HashGraph_len(tx.added)

MutTransaction_len(g, tx) ==
    HashGraph_len(g) + HashGraph_len(tx.added) - HashGraph_len(tx.removed)

MutTransaction_contains(g, tx, t) ==
    IF HashGraph_contains(tx.added, t) THEN TRUE
    ELSE IF HashGraph_contains(tx.removed, t) THEN FALSE
    ELSE HashGraph_contains(g, t)

\* the number of items the chain of MutTransaction::iter yields
MutTransaction_iter_count(g, tx) ==
    Cardinality(difference(g, tx.removed)) + Cardinality(HashGraph_iter(tx.added))

MutTransaction_iter(g, tx) == difference(g, tx.removed) \cup HashGraph_iter(tx.added)

\* MutTransaction_insert without the un-staging of a removed triple
MutTransaction_insert_no_unstage(g, tx, t) ==
    IF ~HashGraph_contains(g, t)
    THEN [tx EXCEPT !.added = HashGraph_insert(tx.added, t)]
    ELSE tx

\* MutTransaction_insert without the look at the underlying store
MutTransaction_insert_unchecked(g, tx, t) ==
    IF HashGraph_contains(tx.removed, t)
    THEN [tx EXCEPT !.removed = HashGraph_remove(tx.removed, t)]
    ELSE [tx EXCEPT !.added = HashGraph_insert(tx.added, t)]


MutTransaction_insert(g, tx, t) ==
    IF HashGraph_contains(tx.removed, t)
    THEN [tx EXCEPT !.removed = HashGraph_remove(tx.removed, t)]
    ELSE IF ~HashGraph_contains(g, t)
    THEN [tx EXCEPT !.added = HashGraph_insert(tx.added, t)]
    ELSE tx

\* MutTransaction_remove without the look at the underlying store
MutTransaction_remove_unchecked(g, tx, t) ==
    IF HashGraph_contains(tx.added, t)
    THEN [tx EXCEPT !.added = HashGraph_remove(tx.added, t)]
    ELSE [tx EXCEPT !.removed = HashGraph_insert(tx.removed, t)]

\* MutTransaction_remove without the un-staging of an added triple
MutTransaction_remove_no_unstage(g, tx, t) ==
    IF HashGraph_contains(g, t)
    THEN [tx EXCEPT !.removed = HashGraph_insert(tx.removed, t)]
    ELSE tx

MutTransaction_remove(g, tx, t) ==
    IF HashGraph_contains(tx.added, t)
    THEN [tx EXCEPT !.added = HashGraph_remove(tx.added, t)]
    ELSE IF HashGraph_contains(g, t)
    THEN [tx EXCEPT !.removed = HashGraph_insert(tx.removed, t)]
    ELSE tx

RECURSIVE MutTransaction_remove_all(_, _, _)
MutTransaction_remove_all(g, tx, S) ==
    IF S = {} THEN tx
    ELSE LET t == CHOOSE y \in S : TRUE
         IN  MutTransaction_remove_all(g, MutTransaction_remove(g, tx, t), S \ {t})

\* MutTransaction_retain with the filter f(s, p, o) instead of !f(s, p, o)
MutTransaction_retain_filter_inverted(g, tx, f) ==
    LET newly_removed_triples ==
            HashGraph_from_iter({ t \in MutTransaction_iter(g, tx) : t \in f })
    IN  MutTransaction_remove_all(g, tx, HashGraph_iter(newly_removed_triples))

\* f is the set of triples for which the closure returns true
MutTransaction_retain(g, tx, f) ==
    LET newly_removed_triples ==
            HashGraph_from_iter({ t \in MutTransaction_iter(g, tx) : t \notin f })
    IN  MutTransaction_remove_all(g, tx, HashGraph_iter(newly_removed_triples))

\* clear that empties added_triples and stages no removal
MutTransaction_clear_added_only(g, tx) ==
    [added   |-> HashGraph_clear(tx.added),
     removed |-> tx.removed]

\* clear that stages the removal of the store and keeps added_triples
MutTransaction_clear_keeping_added(g, tx) ==
    [added   |-> tx.added,
     removed |-> HashGraph_clone_extend(tx.removed, HashGraph_iter(g))]

MutTransaction_clear(g, tx) ==
    [added   |-> HashGraph_clear(tx.added),
     removed |-> HashGraph_clone_extend(tx.removed, HashGraph_iter(g))]

-----------------------------------------------------------------------------
(* The query closure of the cached_query test: |g| g.len() *)

Query(g) == HashGraph_len(g)

-----------------------------------------------------------------------------
(* TransactionGraph::new: revision 0, lock free, no transaction, no query *)

\* The graph handed to TransactionGraph::new: as the Testbed's, built by insert.
InitStores == { HashGraph_from_iter({ <<"a", "pa", "b">> }) }

Returned(op, res, ran) == [op |-> op, res |-> res, ran |-> ran]

Init ==
    /\ store \in InitStores
    /\ revision = 0
    /\ wlocked = FALSE
    /\ rcount = 0
    /\ poisoned = FALSE
    /\ pc = [t \in Threads |-> "idle"]
    /\ added = [t \in Threads |-> HashGraph_new]
    /\ removed = [t \in Threads |-> HashGraph_new]
    /\ tq = [t \in Threads |-> NoQuery]
    /\ cq = [q \in Queries |-> [live |-> FALSE, result |-> 0, current_revision |-> 0]]
    /\ hist = << store >>
    /\ committed = HashGraph_iter(store)
    /\ last = Returned("new", "ok", FALSE)

-----------------------------------------------------------------------------
(* RwLock *)

\* read() returns / try_read() is Ok or Poisoned: no writer holds the lock
CanRead == ~wlocked

\* write() returns / try_write() is Ok or Poisoned: nobody holds the lock
CanWrite == ~wlocked /\ rcount = 0

\* A call panics in thread t (unwrap of a PoisonError, or the panic! arm):
\* the guard inside the error is dropped, nothing is held afterwards.
Panics(op) ==
    /\ last' = Returned(op, "panic", FALSE)
    /\ UNCHANGED << store, revision, wlocked, rcount, poisoned, pc, added, removed,
                    tq, cq, hist, committed >>

ReturnsNone(op) ==
    /\ last' = Returned(op, "None", FALSE)
    /\ UNCHANGED << store, revision, wlocked, rcount, poisoned, pc, added, removed,
                    tq, cq, hist, committed >>

\* Transaction::new(guard)
Transaction_new(op, t) ==
    /\ rcount' = rcount + 1
    /\ pc' = [pc EXCEPT ![t] = "reading"]
    /\ last' = Returned(op, "Some", FALSE)
    /\ UNCHANGED << store, revision, wlocked, poisoned, added, removed, tq, cq,
                    hist, committed >>

\* MutTransaction::new(guard)
MutTransaction_start(op, t) ==
    /\ wlocked' = TRUE
    /\ pc' = [pc EXCEPT ![t] = "writing"]
    /\ added' = [added EXCEPT ![t] = MutTransaction_new.added]
    /\ removed' = [removed EXCEPT ![t] = MutTransaction_new.removed]
    /\ last' = Returned(op, "Some", FALSE)
    /\ UNCHANGED << store, revision, rcount, poisoned, tq, cq, hist, committed >>

\* the read guard is taken, CachedQuery::new runs next
CachedQuery_start(t, q) ==
    /\ rcount' = rcount + 1
    /\ pc' = [pc EXCEPT ![t] = "cq_new"]
    /\ tq' = [tq EXCEPT ![t] = q]
    /\ UNCHANGED << store, revision, wlocked, poisoned, added, removed, cq,
                    hist, committed, last >>

-----------------------------------------------------------------------------
(* impl TransactionGraph *)

transaction(t) ==
    /\ pc[t] = "idle"
    /\ CanRead
    /\ IF poisoned THEN Panics("transaction")
       ELSE Transaction_new("transaction", t)

try_transaction(t) ==
    /\ pc[t] \in {"idle", "writing"}
    /\ IF ~CanRead THEN ReturnsNone("try_transaction")
       ELSE IF poisoned THEN Panics("try_transaction")
       ELSE Transaction_new("try_transaction", t)

\* a Transaction goes out of scope
drop_transaction(t) ==
    /\ pc[t] = "reading"
    /\ rcount' = rcount - 1
    /\ pc' = [pc EXCEPT ![t] = "idle"]
    /\ UNCHANGED << store, revision, wlocked, poisoned, added, removed, tq, cq,
                    hist, committed, last >>

\* mut_transaction waiting as a reader waits
mut_transaction_read_locked(t) ==
    /\ pc[t] = "idle"
    /\ revision < MaxRevision
    /\ CanRead
    /\ IF poisoned THEN Panics("mut_transaction")
       ELSE MutTransaction_start("mut_transaction", t)


mut_transaction(t) ==
    /\ pc[t] = "idle"
    /\ revision < MaxRevision
    /\ CanWrite
    /\ IF poisoned THEN Panics("mut_transaction")
       ELSE MutTransaction_start("mut_transaction", t)

\* try_mut_transaction without the WouldBlock arm: the catch-all arm panics
try_mut_transaction_no_would_block(t) ==
    /\ pc[t] \in {"idle", "reading", "writing"}
    /\ revision < MaxRevision
    /\ IF ~CanWrite \/ poisoned THEN Panics("try_mut_transaction")
       ELSE MutTransaction_start("try_mut_transaction", t)


try_mut_transaction(t) ==
    /\ pc[t] \in {"idle", "reading", "writing"}
    /\ revision < MaxRevision
    /\ IF ~CanWrite THEN ReturnsNone("try_mut_transaction")
       ELSE IF poisoned THEN Panics("try_mut_transaction")
       ELSE MutTransaction_start("try_mut_transaction", t)

cached_query(t, q) ==
    /\ pc[t] = "idle"
    /\ ~cq[q].live
    /\ \A u \in Threads : tq[u] # q
    /\ CanRead
    /\ IF poisoned THEN Panics("cached_query")
       ELSE CachedQuery_start(t, q)

\* try_cached_query calling read() as cached_query does
try_cached_query_waits(t, q) ==
    /\ pc[t] \in {"idle", "writing"}
    /\ ~cq[q].live
    /\ \A u \in Threads : tq[u] # q
    /\ CanRead
    /\ IF poisoned THEN Panics("try_cached_query")
       ELSE CachedQuery_start(t, q)


try_cached_query(t, q) ==
    /\ pc[t] \in {"idle", "writing"}
    /\ ~cq[q].live
    /\ \A u \in Threads : tq[u] # q
    /\ IF ~CanRead THEN ReturnsNone("try_cached_query")
       ELSE IF poisoned THEN Panics("try_cached_query")
       ELSE CachedQuery_start(t, q)

-----------------------------------------------------------------------------
(* impl Graph for MutTransaction: the mutations, each followed by            *)
(* `if cfg!(test) { assert!(self.is_valid()) }`                              *)

Tx(t) == [added |-> added[t], removed |-> removed[t]]

\* a panic that writes the staged additions to the store while it unwinds
WriterPanics_flushing(op, t) ==
    /\ store' = HashGraph_extend(store, HashGraph_into_iter(added[t]))
    /\ wlocked' = FALSE
    /\ poisoned' = TRUE
    /\ pc' = [pc EXCEPT ![t] = "idle"]
    /\ added' = [added EXCEPT ![t] = HashGraph_new]
    /\ removed' = [removed EXCEPT ![t] = HashGraph_new]
    /\ last' = Returned(op, "panic", FALSE)
    /\ UNCHANGED << revision, rcount, tq, cq, hist, committed >>

\* A panic unwinds through the frame that owns the MutTransaction: the diff is
\* dropped, and dropping the RwLockWriteGuard while panicking poisons the lock.
WriterPanics(op, t) ==
    /\ wlocked' = FALSE
    /\ poisoned' = TRUE
    /\ pc' = [pc EXCEPT ![t] = "idle"]
    /\ added' = [added EXCEPT ![t] = HashGraph_new]
    /\ removed' = [removed EXCEPT ![t] = HashGraph_new]
    /\ last' = Returned(op, "panic", FALSE)
    /\ UNCHANGED << store, revision, rcount, tq, cq, hist, committed >>

\* the mutation left the diff tx; then the assertion runs
Mutated(op, t, tx) ==
    IF is_valid(store, tx)
    THEN /\ added' = [added EXCEPT ![t] = tx.added]
         /\ removed' = [removed EXCEPT ![t] = tx.removed]
         /\ UNCHANGED << store, revision, wlocked, rcount, poisoned, pc, tq, cq,
                         hist, committed, last >>
    ELSE WriterPanics(op, t)

\* insert writing to the underlying store instead of the diff
insert_writes_through(t, tr) ==
    /\ pc[t] = "writing"
    /\ store' = HashGraph_insert(store, tr)
    /\ UNCHANGED << revision, wlocked, rcount, poisoned, pc, added, removed, tq, cq,
                    hist, committed, last >>


insert(t, tr) ==
    /\ pc[t] = "writing"
    /\ Mutated("insert", t, MutTransaction_insert(store, Tx(t), tr))

remove(t, tr) ==
    /\ pc[t] = "writing"
    /\ Mutated("remove", t, MutTransaction_remove(store, Tx(t), tr))

retain(t, f) ==
    /\ pc[t] = "writing"
    /\ Mutated("retain", t, MutTransaction_retain(store, Tx(t), f))

\* the closure given to retain panics
retain_panics(t) ==
    /\ pc[t] = "writing"
    /\ WriterPanics("retain", t)

clear(t) ==
    /\ pc[t] = "writing"
    /\ Mutated("clear", t, MutTransaction_clear(store, Tx(t)))

\* a MutTransaction goes out of scope without commit
drop_mut_transaction(t) ==
    /\ pc[t] = "writing"
    /\ wlocked' = FALSE
    /\ pc' = [pc EXCEPT ![t] = "idle"]
    /\ added' = [added EXCEPT ![t] = HashGraph_new]
    /\ removed' = [removed EXCEPT ![t] = HashGraph_new]
    /\ UNCHANGED << store, revision, rcount, poisoned, tq, cq, hist, committed,
                    last >>

-----------------------------------------------------------------------------
(* MutTransaction::commit, statement by statement *)

\* assert!(self.is_valid()); self.guard.graph.remove_all(self.removed_triples.iter())
commit_remove_all(t) ==
    /\ pc[t] = "writing"
    /\ IF is_valid(store, Tx(t))
       THEN /\ store' = HashGraph_remove_all(store, HashGraph_iter(removed[t]))
            /\ committed' = MutTransaction_iter(store, Tx(t))
            /\ pc' = [pc EXCEPT ![t] = "commit_extend"]
            /\ UNCHANGED << revision, wlocked, rcount, poisoned, added, removed,
                            tq, cq, hist, last >>
       ELSE WriterPanics("commit", t)

\* commit without the extend
commit_extend_skipped(t) ==
    /\ pc[t] = "commit_extend"
    /\ added' = [added EXCEPT ![t] = HashGraph_new]
    /\ pc' = [pc EXCEPT ![t] = "commit_revision"]
    /\ UNCHANGED << store, revision, wlocked, rcount, poisoned, removed, tq, cq,
                    hist, committed, last >>

\* self.guard.graph.extend(self.added_triples.into_iter())
\* commit that releases the write lock before the revision is advanced
commit_extend_unlocked(t) ==
    /\ pc[t] = "commit_extend"
    /\ store' = HashGraph_extend(store, HashGraph_into_iter(added[t]))
    /\ added' = [added EXCEPT ![t] = HashGraph_new]
    /\ wlocked' = FALSE
    /\ pc' = [pc EXCEPT ![t] = "commit_revision"]
    /\ UNCHANGED << revision, rcount, poisoned, removed, tq, cq, hist,
                    committed, last >>

commit_extend(t) ==
    /\ pc[t] = "commit_extend"
    /\ store' = HashGraph_extend(store, HashGraph_into_iter(added[t]))
    /\ added' = [added EXCEPT ![t] = HashGraph_new]
    /\ pc' = [pc EXCEPT ![t] = "commit_revision"]
    /\ UNCHANGED << revision, wlocked, rcount, poisoned, removed, tq, cq, hist,
                    committed, last >>

\* commit without the increment of the revision
commit_revision_forgotten(t) ==
    /\ pc[t] = "commit_revision"
    /\ hist' = Append(hist, store)
    /\ wlocked' = FALSE
    /\ removed' = [removed EXCEPT ![t] = HashGraph_new]
    /\ pc' = [pc EXCEPT ![t] = "idle"]
    /\ last' = Returned("commit", "ok", FALSE)
    /\ UNCHANGED << store, revision, rcount, poisoned, added, tq, cq, committed >>

\* self.guard.revision += 1; then self is dropped and with it the write guard
commit_revision(t) ==
    /\ pc[t] = "commit_revision"
    /\ revision' = revision + 1
    /\ hist' = Append(hist, store)
    /\ wlocked' = FALSE
    /\ removed' = [removed EXCEPT ![t] = HashGraph_new]
    /\ pc' = [pc EXCEPT ![t] = "idle"]
    /\ last' = Returned("commit", "ok", FALSE)
    /\ UNCHANGED << store, rcount, poisoned, added, tq, cq, committed >>

-----------------------------------------------------------------------------
(* CachedQuery *)

\* CachedQuery::new, with the read guard taken by (try_)cached_query; the
\* guard is dropped when new returns.
CachedQuery_new(t) ==
    /\ pc[t] = "cq_new"
    /\ cq' = [cq EXCEPT ![tq[t]] = [live |-> TRUE, result |-> Query(store),
                                     current_revision |-> revision]]
    /\ rcount' = rcount - 1
    /\ pc' = [pc EXCEPT ![t] = "idle"]
    /\ tq' = [tq EXCEPT ![t] = NoQuery]
    /\ last' = Returned("cached_query", "Some", TRUE)
    /\ UNCHANGED << store, revision, wlocked, poisoned, added, removed, hist,
                    committed >>

\* update: `if let Ok(guard) = self.graph.graph.read()`
update(t, q) ==
    /\ pc[t] = "idle"
    /\ cq[q].live
    /\ \A u \in Threads : tq[u] # q
    /\ CanRead
    /\ IF poisoned
       THEN /\ last' = Returned("update", "ok", FALSE)
            /\ UNCHANGED << store, revision, wlocked, rcount, poisoned, pc, added,
                            removed, tq, cq, hist, committed >>
       ELSE /\ rcount' = rcount + 1
            /\ pc' = [pc EXCEPT ![t] = "cq_update"]
            /\ tq' = [tq EXCEPT ![t] = q]
            /\ UNCHANGED << store, revision, wlocked, poisoned, added, removed, cq,
                            hist, committed, last >>

\* update comparing with >= instead of >
update_guarded_not_older(t) ==
    /\ pc[t] = "cq_update"
    /\ IF revision >= cq[tq[t]].current_revision
       THEN /\ cq' = [cq EXCEPT ![tq[t]].result = Query(store),
                                ![tq[t]].current_revision = revision]
            /\ last' = Returned("update", "ok", TRUE)
       ELSE /\ cq' = cq
            /\ last' = Returned("update", "ok", FALSE)
    /\ rcount' = rcount - 1
    /\ pc' = [pc EXCEPT ![t] = "idle"]
    /\ tq' = [tq EXCEPT ![t] = NoQuery]
    /\ UNCHANGED << store, revision, wlocked, poisoned, added, removed, hist,
                    committed >>

\* update recording the new revision and keeping the old result
update_guarded_stale_result(t) ==
    /\ pc[t] = "cq_update"
    /\ IF revision > cq[tq[t]].current_revision
       THEN /\ cq' = [cq EXCEPT ![tq[t]].current_revision = revision]
            /\ last' = Returned("update", "ok", TRUE)
       ELSE /\ cq' = cq
            /\ last' = Returned("update", "ok", FALSE)
    /\ rcount' = rcount - 1
    /\ pc' = [pc EXCEPT ![t] = "idle"]
    /\ tq' = [tq EXCEPT ![t] = NoQuery]
    /\ UNCHANGED << store, revision, wlocked, poisoned, added, removed, hist,
                    committed >>

\* update: the body of the `if let`, then the guard is dropped
update_guarded(t) ==
    /\ pc[t] = "cq_update"
    /\ IF revision > cq[tq[t]].current_revision
       THEN /\ cq' = [cq EXCEPT ![tq[t]].result = Query(store),
                                ![tq[t]].current_revision = revision]
            /\ last' = Returned("update", "ok", TRUE)
       ELSE /\ cq' = cq
            /\ last' = Returned("update", "ok", FALSE)
    /\ rcount' = rcount - 1
    /\ pc' = [pc EXCEPT ![t] = "idle"]
    /\ tq' = [tq EXCEPT ![t] = NoQuery]
    /\ UNCHANGED << store, revision, wlocked, poisoned, added, removed, hist,
                    committed >>

-----------------------------------------------------------------------------

Next ==
    \/ \E t \in Threads : transaction(t)
    \/ \E t \in Threads : try_transaction(t)
    \/ \E t \in Threads : drop_transaction(t)
    \/ \E t \in Threads : mut_transaction(t)
    \/ \E t \in Threads : try_mut_transaction(t)
    \/ \E t \in Threads, q \in Queries : cached_query(t, q)
    \/ \E t \in Threads, q \in Queries : try_cached_query(t, q)
    \/ \E t \in Threads, tr \in TripleUniverse : insert(t, tr)
    \/ \E t \in Threads, tr \in TripleUniverse : remove(t, tr)
    \/ \E t \in Threads, f \in SUBSET TripleUniverse : retain(t, f)
    \/ \E t \in Threads : retain_panics(t)
    \/ \E t \in Threads : clear(t)
    \/ \E t \in Threads : drop_mut_transaction(t)
    \/ \E t \in Threads : commit_remove_all(t)
    \/ \E t \in Threads : commit_extend(t)
    \/ \E t \in Threads : commit_revision(t)
    \/ \E t \in Threads : CachedQuery_new(t)
    \/ \E t \in Threads, q \in Queries : update(t, q)
    \/ \E t \in Threads : update_guarded(t)

Spec == Init /\ [][Next]_vars

-----------------------------------------------------------------------------
(* What is open *)

WriterPcs == {"writing", "commit_extend", "commit_revision"}

\* the threads that own a MutTransaction, a Transaction, a read guard under
\* which a query closure is being evaluated
Writers == { t \in Threads : pc[t] \in WriterPcs }
Readers == { t \in Threads : pc[t] = "reading" }
Evaluators == { t \in Threads : pc[t] \in {"cq_new", "cq_update"} }

\* the store as it was right after the n-th commit
StoreAt(n) == hist[n + 1]

-----------------------------------------------------------------------------
(* Claims *)

\* C1: no step of a thread that has an open MutTransaction, other than the
\* first statement of commit, changes the underlying store or the revision:
\* not insert, remove, retain or clear, and not dropping the transaction (by
\* scope exit or by a panic), so the next transaction finds both as they were.
C1_OpenTransactionLeavesStore ==
    [][\A t \in Threads :
          (pc[t] = "writing" /\ pc'[t] \in {"writing", "idle"})
              => (store' = store /\ revision' = revision /\ hist' = hist)]_vars

\* C1 witness: a transaction with a non-empty diff (something staged as added
\* and something staged as removed) is open, and the store is still the one of
\* the last commit.
C1_Witness ==
    \E t \in Threads :
        /\ pc[t] = "writing"
        /\ HashGraph_iter(added[t]) # {}
        /\ HashGraph_iter(removed[t]) # {}
        /\ store = StoreAt(revision)

\* C2: commit first leaves the store minus removed, then that united with
\* added; once both are applied, and from then on until the next commit, the
\* store contains a triple iff the committed transaction's view contained it
\* when commit was called.
C2_CommitAppliesView ==
    /\ \A t \in Threads :
          pc[t] = "commit_extend" =>
              /\ HashGraph_iter(store) =
                    HashGraph_iter(StoreAt(revision)) \ HashGraph_iter(removed[t])
              /\ committed = HashGraph_iter(store) \cup HashGraph_iter(added[t])
    /\ ((\E t \in Threads : pc[t] = "commit_revision")
            \/ (revision > 0 /\ \A t \in Threads : pc[t] # "commit_extend"))
       => \A tr \in TripleUniverse : HashGraph_contains(store, tr) <=> tr \in committed

\* C2 witness: a commit has just applied a diff that both removed a triple of
\* the store and added a new one.
C2_Witness ==
    \E t \in Threads :
        /\ pc[t] = "commit_revision"
        /\ \E tr \in TripleUniverse :
              HashGraph_contains(StoreAt(revision), tr) /\ ~HashGraph_contains(store, tr)
        /\ \E tr \in TripleUniverse :
              ~HashGraph_contains(StoreAt(revision), tr) /\ HashGraph_contains(store, tr)

\* C3: the revision is 0 at creation; the last statement of commit increases
\* it by exactly 1; no other step changes it; it equals the number of commits
\* performed so far.
C3_RevisionCountsCommits ==
    /\ revision = 0
    /\ [][IF \E t \in Threads : pc[t] = "commit_revision" /\ pc'[t] = "idle"
          THEN revision' = revision + 1 /\ Len(hist') = Len(hist) + 1
          ELSE revision' = revision /\ hist' = hist]_vars
    /\ [](revision = Len(hist) - 1)

\* C3 witness: a second commit has just returned, after a cached query was
\* updated at revision 1.
C3_Witness ==
    /\ revision = 2
    /\ \E q \in Queries : cq[q].live /\ cq[q].current_revision = 1
    /\ last = Returned("commit", "ok", FALSE)

\* C4: while a MutTransaction is open, added is disjoint from the store and
\* removed is a subset of it, and so is the diff that any insert, remove,
\* retain or clear would leave: the assertion after each mutation and at the
\* start of commit holds.
C4_DiffIsValid ==
    \A t \in Threads :
        pc[t] = "writing" =>
            /\ is_subset(removed[t], store)
            /\ is_disjoint(store, added[t])
            /\ is_valid(store, Tx(t))
            /\ \A tr \in TripleUniverse :
                  /\ is_valid(store, MutTransaction_insert(store, Tx(t), tr))
                  /\ is_valid(store, MutTransaction_remove(store, Tx(t), tr))
            /\ \A f \in SUBSET TripleUniverse :
                  is_valid(store, MutTransaction_retain(store, Tx(t), f))
            /\ is_valid(store, MutTransaction_clear(store, Tx(t)))

\* C4 witness: an open transaction on a store with two triples, one of them
\* staged as removed, and the third triple staged as added.
C4_Witness ==
    \E t \in Threads :
        /\ pc[t] = "writing"
        /\ HashGraph_len(store) = 2
        /\ HashGraph_len(removed[t]) = 1
        /\ HashGraph_len(added[t]) = 1

\* C5: at most one MutTransaction is open, and while one is open there is no
\* Transaction and no query closure is being evaluated; the lock's state
\* agrees with what is open; and while none is open (and the lock is not
\* poisoned) every idle thread can open a Transaction, whatever Transactions
\* are open already.
C5_SingleWriter ==
    /\ Cardinality(Writers) <= 1
    /\ Writers # {} => (Readers = {} /\ Evaluators = {})
    /\ wlocked <=> Writers # {}
    /\ rcount = Cardinality(Readers) + Cardinality(Evaluators)
    /\ \A t \in Threads :
          (Writers = {} /\ ~poisoned /\ pc[t] = "idle")
              => ENABLED (transaction(t) /\ pc'[t] = "reading")

\* C5 witness: no MutTransaction is open and two Transactions are open at the
\* same time.
C5_Witness == Writers = {} /\ Cardinality(Readers) = 2

\* C6: while a MutTransaction is open a try_mut_transaction call can return
\* (it does not wait for the lock), and it returns None and changes nothing;
\* made when nothing holds the lock (as right after the open transaction was
\* committed or dropped) it returns a transaction with an empty diff.
C6_TryMutTransaction ==
    /\ [](\A t \in Threads :
            (Writers # {} /\ pc[t] \in {"idle", "writing"})
                => ENABLED try_mut_transaction(t))
    /\ [][\A t \in Threads :
          try_mut_transaction(t) =>
              /\ Writers # {} =>
                    /\ last' = Returned("try_mut_transaction", "None", FALSE)
                    /\ UNCHANGED << store, revision, wlocked, rcount, poisoned, pc,
                                    added, removed, tq, cq, hist, committed >>
              /\ (Writers = {} /\ Readers = {} /\ Evaluators = {} /\ ~poisoned) =>
                    /\ last' = Returned("try_mut_transaction", "Some", FALSE)
                    /\ pc'[t] = "writing"
                    /\ Tx(t)' = MutTransaction_new
                    /\ Writers' = {t}]_vars

\* C6 witness: after a first transaction was committed, a try_mut_transaction
\* call has returned a transaction, which is open.
C6_Witness ==
    /\ revision >= 1
    /\ \E t \in Threads : pc[t] = "writing" /\ Tx(t) = MutTransaction_new
    /\ last = Returned("try_mut_transaction", "Some", FALSE)

\* C7: while a MutTransaction is open a try_transaction or try_cached_query
\* call can return (it does not wait for the lock), and it returns None: no
\* transaction, no cached query, the closure is not run, and the store, the
\* revision and the open diff stay as they are.
C7_TryReadersWhileWriting ==
    /\ [](\A t \in Threads :
            (Writers # {} /\ pc[t] \in {"idle", "writing"})
                => /\ ENABLED try_transaction(t)
                   /\ \A q \in Queries :
                         (~cq[q].live /\ \A u \in Threads : tq[u] # q)
                             => ENABLED try_cached_query(t, q))
    /\ [][\A t \in Threads :
          (Writers # {} /\ (try_transaction(t) \/ \E q \in Queries : try_cached_query(t, q)))
              => /\ last'.res = "None"
                 /\ ~last'.ran
                 /\ Readers' = {} /\ Evaluators' = {}
                 /\ UNCHANGED << store, revision, wlocked, rcount, poisoned, pc,
                                 added, removed, tq, cq, hist, committed >>]_vars

\* C7 witness: a transaction with a non-empty diff is open and a
\* try_cached_query call has returned None.
C7_Witness ==
    /\ \E t \in Threads : pc[t] = "writing" /\ HashGraph_iter(added[t]) # {}
    /\ last = Returned("try_cached_query", "None", FALSE)

\* C8: every update() call that returns has run the closure iff the store's
\* revision was greater than the cached one; if it has, the result is the
\* query of the current store and the cached revision is the revision; if it
\* has not, result and cached revision are unchanged.
C8_UpdateReevaluatesIffNewer ==
    [][\A t \in Threads, q \in Queries :
          (\/ pc[t] = "cq_update" /\ tq[t] = q /\ pc'[t] = "idle"
           \/ update(t, q) /\ pc'[t] = "idle")
              => /\ last'.ran <=> revision > cq[q].current_revision
                 /\ IF last'.ran
                    THEN /\ cq'[q].result = Query(store)
                         /\ cq'[q].current_revision = revision
                    ELSE cq' = cq]_vars

\* C8, on a lock that is not poisoned: the step of update that runs under the
\* read guard runs the closure iff the revision is greater than the cached
\* one; then the result is the query of the current store and the cached
\* revision is the revision; otherwise result and cached revision stay and
\* the closure is not run.
C8_UpdateIffNewer ==
    [][\A t \in Threads :
          (pc[t] = "cq_update" /\ pc'[t] = "idle") =>
              IF revision > cq[tq[t]].current_revision
              THEN /\ last'.ran
                   /\ cq'[tq[t]].result = Query(store)
                   /\ cq'[tq[t]].current_revision = revision
                   /\ store' = store /\ revision' = revision
              ELSE /\ ~last'.ran
                   /\ cq' = cq]_vars

\* C8 witness: an update has run the closure, the query is up to date, and a
\* second update has been started with no commit in between.
C8_Witness ==
    \E t \in Threads :
        /\ pc[t] = "cq_update"
        /\ last = Returned("update", "ok", TRUE)
        /\ cq[tq[t]].current_revision = revision
        /\ revision >= 1

\* C9: the result of every cached query is the query of the store as it was
\* right after the commit numbered by its cached revision.
C9_ResultOfCachedRevision ==
    \A q \in Queries :
        cq[q].live =>
            /\ cq[q].current_revision <= revision
            /\ cq[q].result = Query(StoreAt(cq[q].current_revision))

\* C9 witness: a query updated after the first commit and not after the
\* second, while the three stores have three different lengths.
C9_Witness ==
    \E q \in Queries :
        /\ cq[q].live
        /\ cq[q].current_revision = 1
        /\ revision = 2
        /\ Query(StoreAt(0)) # Query(StoreAt(1))
        /\ Query(StoreAt(1)) # Query(StoreAt(2))
        /\ pc = [t \in Threads |-> "idle"]

\* C10: with the lock poisoned, every call on the handle or on a cached query
\* panics.
C10_PoisonedAccessPanics ==
    [][poisoned => last'.res = "panic"]_vars

-----------------------------------------------------------------------------
(* The view of an open MutTransaction *)

\* V = (underlying minus removed) union added
View(g, tx) ==
    (HashGraph_iter(g) \ HashGraph_iter(tx.removed)) \cup HashGraph_iter(tx.added)

\* C11: for every open MutTransaction, with V = (underlying minus removed)
\* union added: contains(t) is true iff t is in V; iter() yields the triples of
\* V, each once (its two chained parts are disjoint and it yields as many
\* items as V has triples); len() is underlying.len() + added.len() -
\* removed.len() and is the number of triples of V.
C11_ViewOfOpenTransaction ==
    \A t \in Threads :
        pc[t] = "writing" =>
            /\ \A tr \in TripleUniverse :
                  MutTransaction_contains(store, Tx(t), tr) <=> tr \in View(store, Tx(t))
            /\ MutTransaction_iter(store, Tx(t)) = View(store, Tx(t))
            /\ difference(store, removed[t]) \cap HashGraph_iter(added[t]) = {}
            /\ MutTransaction_iter_count(store, Tx(t)) = Cardinality(View(store, Tx(t)))
            /\ MutTransaction_len(store, Tx(t)) =
                  HashGraph_len(store) + HashGraph_len(added[t]) - HashGraph_len(removed[t])
            /\ MutTransaction_len(store, Tx(t)) = Cardinality(View(store, Tx(t)))

\* C11 witness: after a commit, an open transaction with a triple staged as
\* removed and another staged as added, so that V differs from the store in
\* both directions.
C11_Witness ==
    \E t \in Threads :
        /\ pc[t] = "writing"
        /\ revision >= 1
        /\ HashGraph_len(removed[t]) = 1
        /\ HashGraph_len(added[t]) = 1
        /\ MutTransaction_len(store, Tx(t)) = 2

\* C12: for every open MutTransaction and every triple t, insert(t) un-stages
\* t if it is staged in removed, else stages it in added if the store does not
\* contain it, else changes nothing; afterwards contains(t) is true and the
\* containment of every other triple is as before; a second insert(t) changes
\* neither added, removed nor len().
C12_Insert ==
    \A t \in Threads :
        pc[t] = "writing" =>
            \A tr \in TripleUniverse :
                LET tx1 == MutTransaction_insert(store, Tx(t), tr)
                    tx2 == MutTransaction_insert(store, tx1, tr)
                IN  /\ IF tr \in HashGraph_iter(removed[t])
                       THEN /\ HashGraph_iter(tx1.removed) = HashGraph_iter(removed[t]) \ {tr}
                            /\ tx1.added = added[t]
                       ELSE IF ~HashGraph_contains(store, tr)
                       THEN /\ HashGraph_iter(tx1.added) = HashGraph_iter(added[t]) \cup {tr}
                            /\ tx1.removed = removed[t]
                       ELSE tx1 = Tx(t)
                    /\ MutTransaction_contains(store, tx1, tr)
                    /\ \A u \in TripleUniverse \ {tr} :
                          MutTransaction_contains(store, tx1, u)
                              <=> MutTransaction_contains(store, Tx(t), u)
                    /\ HashGraph_iter(tx2.added) = HashGraph_iter(tx1.added)
                    /\ HashGraph_iter(tx2.removed) = HashGraph_iter(tx1.removed)
                    /\ tx2 = tx1
                    /\ MutTransaction_len(store, tx2) = MutTransaction_len(store, tx1)

\* C12 witness: an open transaction in which a triple of the store is staged
\* as removed (insert will un-stage it), a triple is staged as added, and the
\* third triple is neither in the store nor staged (insert will stage it).
C12_Witness ==
    \E t \in Threads :
        /\ pc[t] = "writing"
        /\ \E tr \in TripleUniverse :
              /\ HashGraph_contains(removed[t], tr)
              /\ ~MutTransaction_contains(store, Tx(t), tr)
              /\ MutTransaction_contains(store, MutTransaction_insert(store, Tx(t), tr), tr)
        /\ \E tr \in TripleUniverse : HashGraph_contains(added[t], tr)
        /\ \E tr \in TripleUniverse :
              /\ ~HashGraph_contains(store, tr)
              /\ ~HashGraph_contains(added[t], tr)
              /\ HashGraph_contains(MutTransaction_insert(store, Tx(t), tr).added, tr)

\* C13: for every open MutTransaction and every triple t, remove(t) un-stages
\* t if it is staged in added, else stages it in removed if the store contains
\* it, else changes nothing; afterwards contains(t) is false and the
\* containment of every other triple is as before; a second remove(t), and the
\* remove of a triple that is not in the view, change neither added, removed
\* nor len().
C13_Remove ==
    \A t \in Threads :
        pc[t] = "writing" =>
            \A tr \in TripleUniverse :
                LET tx1 == MutTransaction_remove(store, Tx(t), tr)
                    tx2 == MutTransaction_remove(store, tx1, tr)
                IN  /\ IF tr \in HashGraph_iter(added[t])
                       THEN /\ HashGraph_iter(tx1.added) = HashGraph_iter(added[t]) \ {tr}
                            /\ tx1.removed = removed[t]
                       ELSE IF HashGraph_contains(store, tr)
                       THEN /\ HashGraph_iter(tx1.removed) = HashGraph_iter(removed[t]) \cup {tr}
                            /\ tx1.added = added[t]
                       ELSE tx1 = Tx(t)
                    /\ ~MutTransaction_contains(store, tx1, tr)
                    /\ \A u \in TripleUniverse \ {tr} :
                          MutTransaction_contains(store, tx1, u)
                              <=> MutTransaction_contains(store, Tx(t), u)
                    /\ HashGraph_iter(tx2.added) = HashGraph_iter(tx1.added)
                    /\ HashGraph_iter(tx2.removed) = HashGraph_iter(tx1.removed)
                    /\ MutTransaction_len(store, tx2) = MutTransaction_len(store, tx1)
                    /\ ~MutTransaction_contains(store, Tx(t), tr) =>
                          /\ HashGraph_iter(tx1.added) = HashGraph_iter(added[t])
                          /\ HashGraph_iter(tx1.removed) = HashGraph_iter(removed[t])
                          /\ MutTransaction_len(store, tx1) = MutTransaction_len(store, Tx(t))

\* C13 witness: an open transaction in which remove has staged a triple of
\* the store as removed, another triple is staged as added (remove will
\* un-stage it), and the third triple is neither in the store nor in the view
\* (remove will change nothing).
C13_Witness ==
    \E t \in Threads :
        /\ pc[t] = "writing"
        /\ \E tr \in TripleUniverse :
              /\ HashGraph_contains(store, tr)
              /\ HashGraph_contains(removed[t], tr)
              /\ ~MutTransaction_contains(store, Tx(t), tr)
        /\ \E tr \in TripleUniverse :
              /\ HashGraph_contains(added[t], tr)
              /\ ~HashGraph_contains(MutTransaction_remove(store, Tx(t), tr).added, tr)
        /\ \E tr \in TripleUniverse :
              /\ ~HashGraph_contains(store, tr)
              /\ ~MutTransaction_contains(store, Tx(t), tr)
              /\ MutTransaction_remove(store, Tx(t), tr) = Tx(t)

-----------------------------------------------------------------------------
(* HashGraph of hash_graph/mod.rs: nodes : HashMap<Node, HashSet<(Node, Node)>> *)
(* (the names carry a 2 for its two levels).  Its iterator is modelled by the  *)
(* sequence of the items it yields, in some order of the subjects and of the   *)
(* pairs.                                                                      *)

Range(seq) == { seq[i] : i \in DOMAIN seq }

RECURSIVE SeqOfSet(_)
SeqOfSet(S) ==
    IF S = {} THEN << >>
    ELSE LET x == CHOOSE y \in S : TRUE IN << x >> \o SeqOfSet(S \ {x})

HashGraph2_new == EmptyMap

HashGraph2_len(g) == SumOver([s \in DOMAIN g |-> Cardinality(g[s])], DOMAIN g)

\* is_empty as nodes.is_empty() alone
HashGraph2_is_empty_no_keys(g) == DOMAIN g = {}

HashGraph2_is_empty(g) ==
    IF DOMAIN g = {} THEN TRUE
    ELSE \A s \in DOMAIN g : g[s] = {}

HashGraph2_contains_triple(g, t) ==
    IF t[1] \in DOMAIN g THEN << t[2], t[3] >> \in g[t[1]]
    ELSE FALSE

\* TripleIter::new: for every (s, rels), every (p, o) of rels as (s, p, o), flattened
RECURSIVE TripleIter_new(_, _)
TripleIter_new(g, S) ==
    IF S = {} THEN << >>
    ELSE LET s    == CHOOSE y \in S : TRUE
             rels == SeqOfSet(g[s])
         IN  [i \in 1..Len(rels) |-> << s, rels[i][1], rels[i][2] >>]
                 \o TripleIter_new(g, S \ {s})

HashGraph2_triples(g) == TripleIter_new(g, DOMAIN g)

HashGraph2_insert(g, t) ==
    LET rels == IF t[1] \in DOMAIN g THEN g[t[1]] ELSE {}
    IN  MapPut(g, t[1], rels \cup { << t[2], t[3] >> })

\* remove with `p != predicate && o != object`
HashGraph2_remove_and(g, t) ==
    IF t[1] \in DOMAIN g
    THEN MapPut(g, t[1], { pr \in g[t[1]] : pr[1] # t[2] /\ pr[2] # t[3] })
    ELSE g

HashGraph2_remove(g, t) ==
    IF t[1] \in DOMAIN g
    THEN MapPut(g, t[1], { pr \in g[t[1]] : pr[1] # t[2] \/ pr[2] # t[3] })
    ELSE g

HashGraph2_retain(g, f) ==
    [s \in DOMAIN g |-> { pr \in g[s] : << s, pr[1], pr[2] >> \in f }]

\* extend putting a fresh pair set under the subject instead of entry().or_insert_with()
RECURSIVE HashGraph2_extend_overwriting(_, _)
HashGraph2_extend_overwriting(g, iter) ==
    IF iter = << >> THEN g
    ELSE HashGraph2_extend_overwriting(
             MapPut(g, Head(iter)[1], { << Head(iter)[2], Head(iter)[3] >> }), Tail(iter))

\* Graph::extend: insert every item of the iterator, in its order
RECURSIVE HashGraph2_extend(_, _)
HashGraph2_extend(g, iter) ==
    IF iter = << >> THEN g
    ELSE HashGraph2_extend(HashGraph2_insert(g, Head(iter)), Tail(iter))

\* Graph::remove_all
RECURSIVE HashGraph2_remove_all(_, _)
HashGraph2_remove_all(g, iter) ==
    IF iter = << >> THEN g
    ELSE HashGraph2_remove_all(HashGraph2_remove(g, Head(iter)), Tail(iter))

\* both FromIterator impls: the nodes are cloned or moved, the graph is the same
HashGraph2_from_iter(iter) == HashGraph2_extend(HashGraph2_new, iter)

\* #[derive(PartialEq)]: the two HashMaps have the same keys and equal values
HashGraph2_eq(g, h) == g = h

-----------------------------------------------------------------------------
(* A HashGraph of hash_graph/mod.rs owned by a single caller, who calls      *)
(* insert, remove and retain on it in any order.  In this specification      *)
(* `store` is that graph; there is no lock, no transaction and no query, and *)
(* the other variables stay as they are at creation.                         *)

GraphNodes == { "a", "b" }
GraphPredicates == { "pa", "pb" }
GraphTriples == GraphNodes \X GraphPredicates \X GraphNodes

GraphInit ==
    /\ store = HashGraph2_new
    /\ revision = 0
    /\ wlocked = FALSE
    /\ rcount = 0
    /\ poisoned = FALSE
    /\ pc = [t \in Threads |-> "idle"]
    /\ added = [t \in Threads |-> HashGraph_new]
    /\ removed = [t \in Threads |-> HashGraph_new]
    /\ tq = [t \in Threads |-> NoQuery]
    /\ cq = [q \in Queries |-> [live |-> FALSE, result |-> 0, current_revision |-> 0]]
    /\ hist = << >>
    /\ committed = {}
    /\ last = Returned("new", "ok", FALSE)

\* what a call on the graph leaves alone
GraphRest ==
    UNCHANGED << revision, wlocked, rcount, poisoned, pc, added, removed, tq, cq,
                 hist, committed, last >>

graph_insert(tr) ==
    /\ store' = HashGraph2_insert(store, tr)
    /\ GraphRest

graph_remove(tr) ==
    /\ store' = HashGraph2_remove(store, tr)
    /\ GraphRest

graph_retain(f) ==
    /\ store' = HashGraph2_retain(store, f)
    /\ GraphRest

GraphNext ==
    \/ \E tr \in GraphTriples : graph_insert(tr)
    \/ \E tr \in GraphTriples : graph_remove(tr)
    \/ \E f \in SUBSET GraphTriples : graph_retain(f)

GraphSpec == GraphInit /\ [][GraphNext]_vars

-----------------------------------------------------------------------------
(* The mut_transaction test: run_transaction on the Testbed's graph *)

TestNodes == { "a", "b", "c" }
TestPredicates == { "pa", "pb", "pc" }

\* Testbed::new: (a, pa, b), (b, pb, c), (c, pc, a)
Testbed == HashGraph_from_iter({ <<"a", "pa", "b">>, <<"b", "pb", "c">>, <<"c", "pc", "a">> })

\* the closure |s, _, _| s == node_a
SubjectIs(n) == { t \in TestNodes \X TestPredicates \X TestNodes : t[1] = n }

\* run_transaction up to its first / its second retain; the diff it leaves
run_transaction(g, retains) ==
    LET aa == <<"a", "pa", "a">>
        ab == <<"a", "pa", "b">>
        bb == <<"b", "pb", "b">>
        t1 == MutTransaction_insert(g, MutTransaction_insert(g, MutTransaction_new, aa), aa)
        t2 == MutTransaction_remove(g, MutTransaction_remove(g, t1, aa), aa)
        t3 == MutTransaction_remove(g, MutTransaction_remove(g, t2, ab), ab)
        t4 == MutTransaction_insert(g, MutTransaction_insert(g, t3, ab), ab)
        t5 == MutTransaction_insert(g, MutTransaction_insert(g, t4, bb), bb)
        t6 == MutTransaction_retain(g, t5, SubjectIs("a"))
        t7 == MutTransaction_retain(g, t6, SubjectIs("a"))
    IN  IF retains = 0 THEN t5 ELSE IF retains = 1 THEN t6 ELSE t7

\* MutTransaction::commit, all its statements: the store it leaves
MutTransaction_commit(g, tx) ==
    HashGraph_extend(HashGraph_remove_all(g, HashGraph_iter(tx.removed)),
                     HashGraph_into_iter(tx.added))

-----------------------------------------------------------------------------
(* The threads opening MutTransactions only: every call is one of             *)
(* mut_transaction, insert, remove, retain, clear, commit or the drop of the  *)
(* transaction.  Its behaviours are behaviours of Spec.                       *)

WriterNext ==
    \/ \E t \in Threads : mut_transaction(t)
    \/ \E t \in Threads, tr \in TripleUniverse : insert(t, tr)
    \/ \E t \in Threads, tr \in TripleUniverse : remove(t, tr)
    \/ \E t \in Threads, f \in SUBSET TripleUniverse : retain(t, f)
    \/ \E t \in Threads : clear(t)
    \/ \E t \in Threads : drop_mut_transaction(t)
    \/ \E t \in Threads : commit_remove_all(t)
    \/ \E t \in Threads : commit_extend(t)
    \/ \E t \in Threads : commit_revision(t)

WriterSpec == Init /\ [][WriterNext]_vars

-----------------------------------------------------------------------------
(* retain *)

\* the contents of the store as a HashGraph of hash_graph/mod.rs, as collected
\* from its iterator
StoreAsHashGraph2 == HashGraph2_from_iter(SeqOfSet(HashGraph_iter(store)))

C15_RetainRemovesMatching ==
    [][\A t \in Threads, f \in SUBSET TripleUniverse :
          (retain(t, f) /\ pc'[t] = "writing") =>
              ( /\ View(store', Tx(t)') = View(store, Tx(t)) \ f
                /\ MutTransaction_iter(Testbed, run_transaction(Testbed, 0)) =
                      { <<"a", "pa", "b">>, <<"b", "pb", "c">>, <<"c", "pc", "a">>,
                        <<"b", "pb", "b">> }
                /\ \A n \in {1, 2} :
                      /\ MutTransaction_len(Testbed, run_transaction(Testbed, n)) = 3
                      /\ MutTransaction_iter(Testbed, run_transaction(Testbed, n)) =
                            { <<"b", "pb", "c">>, <<"c", "pc", "a">>, <<"b", "pb", "b">> }
                      /\ ~MutTransaction_contains(Testbed, run_transaction(Testbed, n),
                                                  <<"a", "pa", "b">>)
                      /\ \A tr \in { <<"b", "pb", "c">>, <<"c", "pc", "a">>,
                                     <<"b", "pb", "b">> } :
                            MutTransaction_contains(Testbed, run_transaction(Testbed, n), tr)
                      /\ HashGraph_iter(
                             MutTransaction_commit(Testbed, run_transaction(Testbed, n))) =
                            { <<"b", "pb", "c">>, <<"c", "pc", "a">>, <<"b", "pb", "b">> } )]_vars

-----------------------------------------------------------------------------
(* The HashGraph of hash_graph/mod.rs, under GraphSpec *)

\* the graph collected from the iterator of the graph
Collected == HashGraph2_from_iter(HashGraph2_triples(store))

\* C16: on a HashGraph, the insert of a contained triple and the remove of a
\* triple that is not contained leave len() and contains of every triple as
\* they are; the insert of a new triple raises len() by exactly 1 and the
\* remove of a contained triple lowers it by exactly 1.
C16_InsertRemoveLen ==
    \A tr \in GraphTriples :
        LET inserted == HashGraph2_insert(store, tr)
            removedG == HashGraph2_remove(store, tr)
        IN  IF HashGraph2_contains_triple(store, tr)
            THEN /\ HashGraph2_len(inserted) = HashGraph2_len(store)
                 /\ \A u \in GraphTriples :
                       HashGraph2_contains_triple(inserted, u)
                           <=> HashGraph2_contains_triple(store, u)
                 /\ HashGraph2_len(removedG) = HashGraph2_len(store) - 1
                 /\ ~HashGraph2_contains_triple(removedG, tr)
            ELSE /\ HashGraph2_len(removedG) = HashGraph2_len(store)
                 /\ \A u \in GraphTriples :
                       HashGraph2_contains_triple(removedG, u)
                           <=> HashGraph2_contains_triple(store, u)
                 /\ HashGraph2_len(inserted) = HashGraph2_len(store) + 1
                 /\ HashGraph2_contains_triple(inserted, tr)

\* C16 witness: inserts and a remove have left a subject with two pairs, one
\* of them sharing its predicate and the other its object with a triple that
\* is not contained.
C16_Witness ==
    /\ HashGraph2_contains_triple(store, <<"a", "pa", "a">>)
    /\ HashGraph2_contains_triple(store, <<"a", "pb", "b">>)
    /\ ~HashGraph2_contains_triple(store, <<"a", "pa", "b">>)
    /\ "b" \in DOMAIN store /\ store["b"] = {}

\* C17: after any sequence of insert, remove and retain, len() is the number
\* of items the iterator yields, contains_triple(t) is true iff the iterator
\* yields t, the iterator yields no triple twice, and is_empty() is true iff
\* len() is 0.
C17_LenContainsIterAgree ==
    /\ HashGraph2_len(store) = Len(HashGraph2_triples(store))
    /\ \A tr \in GraphTriples :
          HashGraph2_contains_triple(store, tr) <=> tr \in Range(HashGraph2_triples(store))
    /\ Range(HashGraph2_triples(store)) \subseteq GraphTriples
    /\ \A i, j \in DOMAIN HashGraph2_triples(store) :
          HashGraph2_triples(store)[i] = HashGraph2_triples(store)[j] => i = j
    /\ HashGraph2_is_empty(store) <=> HashGraph2_len(store) = 0

\* C17 witness: a subject key whose pair set is empty, beside a subject with
\* pairs.
C17_Witness ==
    /\ \E s \in DOMAIN store : store[s] = {}
    /\ \E s \in DOMAIN store : Cardinality(store[s]) >= 2

\* C18: for every graph G reached by insert, remove and retain, the graph H
\* collected from G's iterator has H.len() = G.len() and H.contains_triple(t)
\* = G.contains_triple(t) for every triple t.
C18_RoundTrip ==
    /\ HashGraph2_len(Collected) = HashGraph2_len(store)
    /\ \A tr \in GraphTriples :
          HashGraph2_contains_triple(Collected, tr) <=> HashGraph2_contains_triple(store, tr)

\* C18 witness: a graph with three triples under one subject and one under
\* the other has been collected.
C18_Witness ==
    /\ HashGraph2_len(store) = 4
    /\ \E s \in DOMAIN store : Cardinality(store[s]) = 3
    /\ HashGraph2_len(Collected) = 4

\* C19: for every graph G reached by insert, remove and retain, the graph
\* collected from G.triples() compares equal to G under ==; and every graph
\* with exactly the triples of G compares equal to G (the same triples in a
\* new graph, or G after a retain that removes nothing from what is left).
C19_CollectedGraphIsEqual ==
    /\ HashGraph2_eq(store, Collected)
    /\ \A f \in SUBSET GraphTriples :
          Range(HashGraph2_triples(HashGraph2_retain(Collected, f)))
                = Range(HashGraph2_triples(store))
              => HashGraph2_eq(store, HashGraph2_retain(Collected, f))

-----------------------------------------------------------------------------
(* set.rs on the graphs of the program *)

\* the graphs at hand: the store, the stores the commits left, and the diffs
GraphsAtHand ==
    {store} \cup Range(hist) \cup { added[t] : t \in Threads }
            \cup { removed[t] : t \in Threads }

\* C20: for every graph A, is_subset(A, A) and is_superset(A, A) hold, and
\* is_disjoint(A, A) holds iff A is empty; for all graphs A and B,
\* is_superset(A, B) = is_subset(B, A), which is true iff A contains every
\* triple of B.
C20_SubsetSupersetDisjoint ==
    /\ \A A \in GraphsAtHand :
          /\ is_subset(A, A)
          /\ is_superset(A, A)
          /\ is_disjoint(A, A) <=> HashGraph_is_empty(A)
          /\ is_disjoint(A, A) <=> HashGraph_len(A) = 0
    /\ \A A, B \in GraphsAtHand :
          /\ is_superset(A, B) <=> is_subset(B, A)
          /\ is_superset(A, B) <=> HashGraph_iter(B) \subseteq HashGraph_iter(A)

\* C20 witness: among the graphs at hand are an empty graph that still has a
\* subject key, a graph that is not empty, and two graphs of which one is a
\* proper superset of the other.
C20_Witness ==
    /\ \E A \in GraphsAtHand : DOMAIN A # {} /\ is_disjoint(A, A)
    /\ \E A \in GraphsAtHand : ~is_disjoint(A, A)
    /\ \E A, B \in GraphsAtHand :
          /\ HashGraph_len(B) > 0
          /\ is_superset(A, B)
          /\ ~is_superset(B, A)

-----------------------------------------------------------------------------
(* set.rs: the chained iterators, as the sequences of the items they yield *)

\* union with the second iterator not filtered: rhs.iter() instead of
\* difference(rhs, lhs)
union_unfiltered(lhs, rhs) ==
    SeqOfSet(HashGraph_iter(lhs)) \o SeqOfSet(HashGraph_iter(rhs))

\* lhs.iter().chain(difference(rhs, lhs))
union(lhs, rhs) ==
    SeqOfSet(HashGraph_iter(lhs)) \o SeqOfSet(difference(rhs, lhs))

\* symmetric_difference that yields the first difference only
symmetric_difference_one_sided(lhs, rhs) ==
    SeqOfSet(difference(lhs, rhs))

\* difference(lhs, rhs).chain(difference(rhs, lhs))
symmetric_difference(lhs, rhs) ==
    SeqOfSet(difference(lhs, rhs)) \o SeqOfSet(difference(rhs, lhs))

\* no item is yielded twice
NoItemTwice(seq) ==
    \A i, j \in DOMAIN seq : i # j => seq[i] # seq[j]

\* C21: for all graphs A and B, union(A, B) yields exactly
\* len(A) + len(difference(B, A)) items and no triple twice, it yields every
\* triple of A and every triple of B and nothing else, and it yields the same
\* set of triples as union(B, A).
C21_Union ==
    \A A, B \in GraphsAtHand :
        /\ Len(union(A, B)) = HashGraph_len(A) + Cardinality(difference(B, A))
        /\ NoItemTwice(union(A, B))
        /\ Range(union(A, B)) = HashGraph_iter(A) \cup HashGraph_iter(B)
        /\ \A tr \in TripleUniverse :
              (\E i \in DOMAIN union(A, B) : union(A, B)[i] = tr)
                  <=> (HashGraph_contains(A, tr) \/ HashGraph_contains(B, tr))
        /\ Range(union(A, B)) = Range(union(B, A))

\* C21 witness: the union of two graphs that share a triple and have each a
\* triple the other lacks has been taken, and it has three items.
C21_Witness ==
    \E A, B \in GraphsAtHand :
        /\ intersection(A, B) # {}
        /\ difference(A, B) # {}
        /\ difference(B, A) # {}
        /\ Len(union(A, B)) = 3

\* C22: for all graphs A and B, symmetric_difference(A, B) yields nothing iff
\* A and B contain exactly the same triples; otherwise it yields each triple
\* that is in exactly one of A and B, exactly once, and no other triple.
C22_SymmetricDifference ==
    \A A, B \in GraphsAtHand :
        /\ Len(symmetric_difference(A, B)) = 0
              <=> (\A tr \in TripleUniverse :
                      HashGraph_contains(A, tr) <=> HashGraph_contains(B, tr))
        /\ NoItemTwice(symmetric_difference(A, B))
        /\ \A tr \in TripleUniverse :
              (\E i \in DOMAIN symmetric_difference(A, B) :
                    symmetric_difference(A, B)[i] = tr)
                  <=> (HashGraph_contains(A, tr) # HashGraph_contains(B, tr))

\* C22 witness: two graphs with the same triples but different subject keys
\* have an empty symmetric difference, and two graphs of which the first is
\* a proper subset of the second have one that is not empty.
C22_Witness ==
    /\ \E A, B \in GraphsAtHand :
          /\ A # B
          /\ HashGraph_len(A) > 0
          /\ Len(symmetric_difference(A, B)) = 0
    /\ \E A, B \in GraphsAtHand :
          /\ HashGraph_len(A) > 0
          /\ difference(A, B) = {}
          /\ Len(symmetric_difference(A, B)) > 0

-----------------------------------------------------------------------------
(* set.rs for two graphs of any Graph implementations. A graph is given by
   the two trait methods the functions call: iter, the set of the items it
   yields, and contains, the set of the triples it answers true for. *)

\* impl Graph for HashGraph
HashGraph_as_Graph(g) ==
    [ iter     |-> HashGraph_iter(g),
      contains |-> { tr \in TripleUniverse : HashGraph_contains(g, tr) } ]

\* impl Graph for MutTransaction
MutTransaction_as_Graph(g, tx) ==
    [ iter     |-> MutTransaction_iter(g, tx),
      contains |-> { tr \in TripleUniverse : MutTransaction_contains(g, tx, tr) } ]

Graph_difference(lhs, rhs) == { t \in lhs.iter : t \notin rhs.contains }

\* intersection with the filter left out
Graph_intersection_unfiltered(lhs, rhs) == lhs.iter

Graph_intersection(lhs, rhs) == { t \in lhs.iter : t \in rhs.contains }

Graph_is_subset(lhs, rhs) == \A t \in lhs.iter : t \in rhs.contains

Graph_is_disjoint(lhs, rhs) == Graph_intersection(lhs, rhs) = {}

(* graph/queries.rs: the same methods of the two-level HashGraph *)

HashGraph2_difference(g, other) ==
    SelectSeq(HashGraph2_triples(g),
              LAMBDA t : ~HashGraph2_contains_triple(other, t))

HashGraph2_intersection(g, other) ==
    SelectSeq(HashGraph2_triples(g),
              LAMBDA t : HashGraph2_contains_triple(other, t))

HashGraph2_is_subset(g, other) ==
    \A i \in DOMAIN HashGraph2_triples(g) :
        HashGraph2_contains_triple(other, HashGraph2_triples(g)[i])

HashGraph2_is_disjoint(g, other) ==
    Len(HashGraph2_intersection(g, other)) = 0

\* the graph g as a two-level HashGraph with the same triples
AsHashGraph2(g) == HashGraph2_from_iter(SeqOfSet(HashGraph_iter(g)))

\* the threads that hold an open MutTransaction
OpenWriters == { t \in Threads : pc[t] = "writing" }

\* the open MutTransaction of thread t as a graph
OpenTx(t) == MutTransaction_as_Graph(store, Tx(t))

\* the statements of C23 for two graphs A and B
C23_For(A, B) ==
    /\ Graph_difference(A, B)
          = { tr \in TripleUniverse : tr \in A.contains /\ tr \notin B.contains }
    /\ Graph_intersection(A, B)
          = { tr \in TripleUniverse : tr \in A.contains /\ tr \in B.contains }
    /\ Graph_is_subset(A, B)
          <=> (\A tr \in TripleUniverse : tr \in A.contains => tr \in B.contains)
    /\ Graph_is_disjoint(A, B)
          <=> ~(\E tr \in TripleUniverse : tr \in A.contains /\ tr \in B.contains)
    /\ Graph_is_disjoint(A, B) <=> Graph_is_disjoint(B, A)

\* C23: for all graphs A and B, of the same or of different Graph
\* implementations (HashGraph and HashGraph, MutTransaction and HashGraph,
\* HashGraph and MutTransaction, and the two-level HashGraph's own methods):
\* difference(A, B) yields exactly the triples of A not contained in B,
\* intersection(A, B) exactly the triples of A contained in B, is_subset(A, B)
\* is true iff every triple of A is contained in B, is_disjoint(A, B) is true
\* iff no triple is in both, and is_disjoint(A, B) = is_disjoint(B, A).
C23_SetOperations ==
    /\ \A A, B \in GraphsAtHand :
          /\ C23_For(HashGraph_as_Graph(A), HashGraph_as_Graph(B))
          /\ difference(A, B)
                = { tr \in TripleUniverse :
                      HashGraph_contains(A, tr) /\ ~HashGraph_contains(B, tr) }
          /\ intersection(A, B)
                = { tr \in TripleUniverse :
                      HashGraph_contains(A, tr) /\ HashGraph_contains(B, tr) }
          /\ is_subset(A, B) <=> HashGraph_iter(A) \subseteq HashGraph_iter(B)
          /\ is_disjoint(A, B) <=> HashGraph_iter(A) \cap HashGraph_iter(B) = {}
          /\ is_disjoint(A, B) <=> is_disjoint(B, A)
          /\ Range(HashGraph2_difference(AsHashGraph2(A), AsHashGraph2(B)))
                = HashGraph_iter(A) \ HashGraph_iter(B)
          /\ Range(HashGraph2_intersection(AsHashGraph2(A), AsHashGraph2(B)))
                = HashGraph_iter(A) \cap HashGraph_iter(B)
          /\ HashGraph2_is_subset(AsHashGraph2(A), AsHashGraph2(B))
                <=> HashGraph_iter(A) \subseteq HashGraph_iter(B)
          /\ HashGraph2_is_disjoint(AsHashGraph2(A), AsHashGraph2(B))
                <=> HashGraph_iter(A) \cap HashGraph_iter(B) = {}
          /\ HashGraph2_is_disjoint(AsHashGraph2(A), AsHashGraph2(B))
                <=> HashGraph2_is_disjoint(AsHashGraph2(B), AsHashGraph2(A))
    /\ \A t \in OpenWriters : \A B \in GraphsAtHand :
          /\ C23_For(OpenTx(t), HashGraph_as_Graph(B))
          /\ C23_For(HashGraph_as_Graph(B), OpenTx(t))

\* C23 witness: an open MutTransaction with a staged insertion and a staged
\* removal is compared with a HashGraph that shares a triple with it and
\* lacks another, and with a HashGraph that is not empty and disjoint from it.
C23_Witness ==
    \E t \in OpenWriters :
        /\ ~HashGraph_is_empty(added[t])
        /\ ~HashGraph_is_empty(removed[t])
        /\ \E B \in GraphsAtHand :
              /\ Graph_intersection(OpenTx(t), HashGraph_as_Graph(B)) # {}
              /\ Graph_difference(OpenTx(t), HashGraph_as_Graph(B)) # {}
        /\ \E B \in GraphsAtHand :
              /\ ~HashGraph_is_empty(B)
              /\ Graph_is_disjoint(HashGraph_as_Graph(B), OpenTx(t))

-----------------------------------------------------------------------------
(* node.rs: Node, a shared immutable string. A node is the text of its
   referent and the address of the allocation that holds it; a clone shares
   the allocation. *)

MaxNodes == 3
MaxTriples == 2

\* the texts nodes are built from; the empty text is that of a blank
NodeTexts == {"", "x", "y"}

\* From<&str> for Node: Arc::from(referent), a new allocation at addr
Node_from(referent, addr) == [referent |-> referent, ptr |-> addr]

\* Node::blank: Arc::from(""), a new allocation at addr
Node_blank(addr) == [referent |-> "", ptr |-> addr]

Node_is_blank(n) == n.referent = ""

Node_as_str(n) == n.referent

\* eq that compares the texts of blank nodes too
Node_eq_by_text(self, other) == Node_as_str(self) = Node_as_str(other)

\* PartialEq for Node
Node_eq(self, other) ==
    IF Node_is_blank(self) THEN self.ptr = other.ptr
    ELSE Node_as_str(self) = Node_as_str(other)

\* hash that feeds the pointer for every node
Node_hash_by_pointer(n) == [ptr |-> n.ptr, str |-> ""]

\* Hash for Node: what is fed to the hasher, the pointer of a blank node and
\* the text of any other
Node_hash(n) ==
    IF Node_is_blank(n) THEN [ptr |-> n.ptr, str |-> ""]
    ELSE [ptr |-> 0, str |-> Node_as_str(n)]

(* hash_graph/mod.rs with Node keys: HashMap<Node, HashSet<(Node, Node)>>,
   where a lookup finds a stored key of the same hash that is == to the
   given one *)

\* HashMap::get / entry: the stored keys the lookup of subject finds
NodeGraph_keys(g, subject) ==
    { k \in DOMAIN g : Node_hash(k) = Node_hash(subject) /\ Node_eq(subject, k) }

\* HashSet<(Node, Node)>::contains: tuples hash and compare by component
NodePairs_contains(rels, predicate, object) ==
    \E pr \in rels :
        /\ Node_hash(pr[1]) = Node_hash(predicate)
        /\ Node_hash(pr[2]) = Node_hash(object)
        /\ Node_eq(predicate, pr[1])
        /\ Node_eq(object, pr[2])

NodeGraph_len(g) == SumOver([s \in DOMAIN g |-> Cardinality(g[s])], DOMAIN g)

NodeGraph_contains_triple(g, t) ==
    IF NodeGraph_keys(g, t[1]) # {}
    THEN LET k == CHOOSE k \in NodeGraph_keys(g, t[1]) : TRUE
         IN  NodePairs_contains(g[k], t[2], t[3])
    ELSE FALSE

\* entry(subject).or_insert_with(HashSet::new).insert((predicate, object))
NodeGraph_insert(g, t) ==
    LET found == NodeGraph_keys(g, t[1])
        k     == IF found # {} THEN CHOOSE k \in found : TRUE ELSE t[1]
        rels  == IF found # {} THEN g[k] ELSE {}
    IN  MapPut(g, k, IF NodePairs_contains(rels, t[2], t[3]) THEN rels
                     ELSE rels \cup { << t[2], t[3] >> })

\* the nodes a graph holds
NodeGraph_nodes(g) ==
    DOMAIN g \cup UNION { { pr[1], pr[2] } : pr \in UNION { g[s] : s \in DOMAIN g } }

\* the allocator returns an address that no allocation in use has: the
\* least one, as addresses are only compared with each other
Node_alloc(used) ==
    CHOOSE a \in 1..(Cardinality(used) + 1) :
        a \notin used /\ \A b \in 1..(a - 1) : b \in used

(* The specification of the nodes of a program: hist is the log of the nodes
   the program made, each with the call it descends from (origin) and whether
   it is still in scope (live); store is a HashGraph of such nodes. *)

NodeInit ==
    /\ store = EmptyMap
    /\ revision = 0
    /\ wlocked = FALSE
    /\ rcount = 0
    /\ poisoned = FALSE
    /\ pc = [t \in Threads |-> "idle"]
    /\ added = [t \in Threads |-> HashGraph_new]
    /\ removed = [t \in Threads |-> HashGraph_new]
    /\ tq = [t \in Threads |-> NoQuery]
    /\ cq = [q \in Queries |-> [live |-> FALSE, result |-> 0, current_revision |-> 0]]
    /\ hist = << >>
    /\ committed = {}
    /\ last = Returned("new", "ok", FALSE)

\* what a call on nodes leaves alone
NodeRest ==
    UNCHANGED << revision, wlocked, rcount, poisoned, pc, added, removed, tq, cq,
                 committed, last >>

\* the nodes in scope, as indices of the log
LiveNodes == { i \in DOMAIN hist : hist[i].live }

\* the allocations in use: those of the nodes in scope and of the graph's nodes
UsedAddresses ==
    { hist[i].node.ptr : i \in LiveNodes } \cup { n.ptr : n \in NodeGraph_nodes(store) }

node_from(referent) ==
    /\ Len(hist) < MaxNodes
    /\ hist' = Append(hist, [node |-> Node_from(referent, Node_alloc(UsedAddresses)),
                             origin |-> Len(hist) + 1, live |-> TRUE])
    /\ UNCHANGED store
    /\ NodeRest

node_blank ==
    /\ Len(hist) < MaxNodes
    /\ hist' = Append(hist, [node |-> Node_blank(Node_alloc(UsedAddresses)),
                             origin |-> Len(hist) + 1, live |-> TRUE])
    /\ UNCHANGED store
    /\ NodeRest

\* Clone for Node (derived): the clone shares the allocation
node_clone(i) ==
    /\ Len(hist) < MaxNodes
    /\ i \in LiveNodes
    /\ hist' = Append(hist, [node |-> hist[i].node,
                             origin |-> hist[i].origin, live |-> TRUE])
    /\ UNCHANGED store
    /\ NodeRest

\* a node goes out of scope; its allocation is freed with its last clone
node_drop(i) ==
    /\ i \in LiveNodes
    /\ hist' = [hist EXCEPT ![i].live = FALSE]
    /\ UNCHANGED store
    /\ NodeRest

NodeNext ==
    \/ \E referent \in NodeTexts : node_from(referent)
    \/ node_blank
    \/ \E i \in DOMAIN hist : node_clone(i)
    \/ \E i \in DOMAIN hist : node_drop(i)

NodeSpec == NodeInit /\ [][NodeNext]_vars

\* C24: two non-blank nodes are equal iff their text is equal; two blank
\* nodes are equal iff one is a clone, possibly a clone of a clone, of the
\* other, so two separately created blank nodes are never equal; a blank node
\* and a non-blank node are never equal; and equality is reflexive, symmetric
\* and transitive over the nodes in scope.
C24_NodeEquality ==
    \A i, j \in LiveNodes :
        LET x == hist[i].node
            y == hist[j].node
        IN  /\ (~Node_is_blank(x) /\ ~Node_is_blank(y))
                  => (Node_eq(x, y) <=> Node_as_str(x) = Node_as_str(y))
            /\ (Node_is_blank(x) /\ Node_is_blank(y))
                  => (Node_eq(x, y) <=> hist[i].origin = hist[j].origin)
            /\ (Node_is_blank(x) # Node_is_blank(y)) => ~Node_eq(x, y)
            /\ Node_eq(x, x)
            /\ Node_eq(x, y) => Node_eq(y, x)
            /\ \A k \in LiveNodes :
                  (Node_eq(x, y) /\ Node_eq(y, hist[k].node)) => Node_eq(x, hist[k].node)

\* C24 witness: a blank node, a clone of it and a blank node created
\* separately are in scope; the clone is equal to the first and the third is
\* not.
C24_Witness ==
    \E i, j, k \in LiveNodes :
        /\ Node_is_blank(hist[i].node)
        /\ Node_is_blank(hist[k].node)
        /\ i # j
        /\ hist[i].origin = hist[j].origin
        /\ hist[i].origin # hist[k].origin
        /\ Node_eq(hist[i].node, hist[j].node)
        /\ ~Node_eq(hist[i].node, hist[k].node)

-----------------------------------------------------------------------------
(* A HashGraph of nodes: nodes as in tests::equivalance are in scope (two
   clones of one blank and two nodes made separately from one text) and
   triples of them, or of them and a new blank, are inserted into the graph
   of store. *)

NodePool ==
    LET blank_a == Node_blank(1)
        blank_b == blank_a
        node_a  == Node_from("x", 2)
        node_c  == Node_from("x", 3)
    IN  << [node |-> blank_a, origin |-> 1, live |-> TRUE],
           [node |-> blank_b, origin |-> 1, live |-> TRUE],
           [node |-> node_a,  origin |-> 3, live |-> TRUE],
           [node |-> node_c,  origin |-> 4, live |-> TRUE] >>

NodeGraphInit ==
    /\ store = EmptyMap
    /\ revision = 0
    /\ wlocked = FALSE
    /\ rcount = 0
    /\ poisoned = FALSE
    /\ pc = [t \in Threads |-> "idle"]
    /\ added = [t \in Threads |-> HashGraph_new]
    /\ removed = [t \in Threads |-> HashGraph_new]
    /\ tq = [t \in Threads |-> NoQuery]
    /\ cq = [q \in Queries |-> [live |-> FALSE, result |-> 0, current_revision |-> 0]]
    /\ hist = NodePool
    /\ committed = {}
    /\ last = Returned("new", "ok", FALSE)

\* the triple t with a node made by Node::blank() at position pos
WithFreshBlank(t, pos) ==
    [t EXCEPT ![pos] = Node_blank(Node_alloc(UsedAddresses))]

\* graph.insert(s.clone(), p.clone(), o.clone())
node_graph_insert(i, j, k) ==
    /\ {i, j, k} \subseteq LiveNodes
    /\ NodeGraph_len(store) < MaxTriples
    /\ store' = NodeGraph_insert(store, << hist[i].node, hist[j].node, hist[k].node >>)
    /\ UNCHANGED hist
    /\ NodeRest

\* the same with Node::blank() for the node at position pos
node_graph_insert_blank(i, j, k, pos) ==
    /\ {i, j, k} \subseteq LiveNodes
    /\ NodeGraph_len(store) < MaxTriples
    /\ store' = NodeGraph_insert(store,
                    WithFreshBlank(<< hist[i].node, hist[j].node, hist[k].node >>, pos))
    /\ UNCHANGED hist
    /\ NodeRest

NodeGraphNext ==
    \/ \E i, j, k \in DOMAIN hist : node_graph_insert(i, j, k)
    \/ \E i, j, k \in DOMAIN hist : \E pos \in 1..3 : node_graph_insert_blank(i, j, k, pos)

NodeGraphSpec == NodeGraphInit /\ [][NodeGraphNext]_vars

\* the triples the graph of store holds
StoredTriples ==
    UNION { { << s, pr[1], pr[2] >> : pr \in store[s] } : s \in DOMAIN store }

\* the triples of nodes in scope
PoolTriples ==
    { << hist[i].node, hist[j].node, hist[k].node >> : i, j, k \in LiveNodes }

\* the nodes of t are equal to those of a stored triple
EqualToStored(t) ==
    \E st \in StoredTriples :
        Node_eq(t[1], st[1]) /\ Node_eq(t[2], st[2]) /\ Node_eq(t[3], st[3])

\* C25: equal nodes hash identically, and the HashGraph deduplicates by Node
\* equality: inserting a triple whose three nodes are equal to those of a
\* stored triple (the same text, or clones of the same blank) does not change
\* len(), and inserting a triple that differs from a stored one only by a
\* freshly created blank node in some position adds a new, distinct triple.
C25_HashConsistentDedup ==
    /\ \A x, y \in NodeGraph_nodes(store) \cup { hist[i].node : i \in LiveNodes } :
          Node_eq(x, y) => Node_hash(x) = Node_hash(y)
    /\ \A t \in PoolTriples :
          /\ EqualToStored(t) <=> NodeGraph_contains_triple(store, t)
          /\ EqualToStored(t)
                => NodeGraph_len(NodeGraph_insert(store, t)) = NodeGraph_len(store)
          /\ ~EqualToStored(t)
                => NodeGraph_len(NodeGraph_insert(store, t)) = NodeGraph_len(store) + 1
    /\ \A st \in StoredTriples : \A pos \in 1..3 :
          LET t == WithFreshBlank(st, pos)
              g == NodeGraph_insert(store, t)
          IN  /\ ~NodeGraph_contains_triple(store, t)
              /\ NodeGraph_len(g) = NodeGraph_len(store) + 1
              /\ NodeGraph_contains_triple(g, t)
              /\ NodeGraph_contains_triple(g, st)
    /\ NodeGraph_len(store) = Cardinality(StoredTriples)
    /\ \A st, su \in StoredTriples :
          (Node_eq(st[1], su[1]) /\ Node_eq(st[2], su[2]) /\ Node_eq(st[3], su[3]))
              => st = su

\* C25 witness: the graph holds two triples that differ only by a blank node
\* made for the second, and a triple of nodes in scope that are other
\* allocations of the same text as the stored ones is found in it.
C25_Witness ==
    /\ NodeGraph_len(store) = 2
    /\ \E st, su \in StoredTriples :
          /\ st # su
          /\ \E pos \in 1..3 :
                /\ Node_is_blank(su[pos])
                /\ su[pos] \notin { hist[i].node : i \in LiveNodes }
                /\ \A q \in (1..3) \ {pos} : Node_eq(st[q], su[q])
    /\ \E t \in PoolTriples :
          /\ t \notin StoredTriples
          /\ ~Node_is_blank(t[1])
          /\ NodeGraph_contains_triple(store, t)

-----------------------------------------------------------------------------
(* graph.rs: is_valid_graph and sanitize. The kinds of nodes: a node is a
   blank, a literal or an IRI; blanks are told apart by their allocation,
   literals and IRIs by their text. *)

IRI(text) == [tag |-> "IRI", text |-> text, id |-> 0]

Literal(text) == [tag |-> "Literal", text |-> text, id |-> 0]

Blank(id) == [tag |-> "Blank", text |-> "", id |-> id]

Node_is_literal(n) == n.tag = "Literal"

Node_is_iri(n) == n.tag = "IRI"

\* the nodes of the testbed: Node::from of an IRI text, and one Node::blank()
predicate_a == IRI("urn:arrf:tests:predicate:a")
predicate_b == IRI("urn:arrf:tests:predicate:b")
predicate_c == IRI("urn:arrf:tests:predicate:c")
node_a == IRI("urn:arrf:tests:node:a")
node_b == IRI("urn:arrf:tests:node:b")
node_c == Blank(1)

\* restore_graph: the three triples of the testbed
TestbedTriples ==
    { << node_a, predicate_a, node_b >>,
      << node_b, predicate_b, node_c >>,
      << node_c, predicate_c, node_a >> }

\* the triples given to insert: those of the testbed, and triples with a
\* literal or a blank as subject, predicate or object
SanitizeTriples ==
    TestbedTriples \cup
    { << Literal("l"), predicate_a, node_a >>,
      << node_a, Literal("l"), node_b >>,
      << node_a, node_c, node_b >>,
      << Literal("l"), node_c, node_a >>,
      << node_a, predicate_a, Literal("l") >> }

\* the closure of is_valid_graph and sanitize, as the triples it is true for
WellFormed ==
    { t \in SanitizeTriples : ~Node_is_literal(t[1]) /\ Node_is_iri(t[2]) }

\* self.iter().all(|(s, p, _)| !s.is_literal() && p.is_iri())
Graph_is_valid_graph(g) ==
    \A t \in HashGraph_iter(g) : ~Node_is_literal(t[1]) /\ Node_is_iri(t[2])

\* sanitize that looks at the subject only
Graph_sanitize_subject_only(g) ==
    HashGraph_retain(g, { t \in SanitizeTriples : ~Node_is_literal(t[1]) })

\* self.retain(|s, p, _| !s.is_literal() && p.is_iri())
Graph_sanitize(g) == HashGraph_retain(g, WellFormed)

SanitizeInit ==
    /\ store = HashGraph_new
    /\ revision = 0
    /\ wlocked = FALSE
    /\ rcount = 0
    /\ poisoned = FALSE
    /\ pc = [t \in Threads |-> "idle"]
    /\ added = [t \in Threads |-> HashGraph_new]
    /\ removed = [t \in Threads |-> HashGraph_new]
    /\ tq = [t \in Threads |-> NoQuery]
    /\ cq = [q \in Queries |-> [live |-> FALSE, result |-> 0, current_revision |-> 0]]
    /\ hist = << >>
    /\ committed = {}
    /\ last = Returned("new", "ok", FALSE)

testbed_insert(tr) ==
    /\ store' = HashGraph_insert(store, tr)
    /\ GraphRest

sanitize ==
    /\ store' = Graph_sanitize(store)
    /\ GraphRest

SanitizeNext ==
    \/ \E tr \in SanitizeTriples : testbed_insert(tr)
    \/ sanitize

SanitizeSpec == SanitizeInit /\ [][SanitizeNext]_vars

\* the triples of g that are not well-formed
IllFormed(g) ==
    { t \in HashGraph_iter(g) : Node_is_literal(t[1]) \/ ~Node_is_iri(t[2]) }

C27_TestbedNotValid ==
    HashGraph_iter(store) = TestbedTriples
        => /\ ~Graph_is_valid_graph(store)
           /\ Graph_is_valid_graph(Graph_sanitize(store))

-----------------------------------------------------------------------------
(* A MutTransaction against a HashGraph that gets the same calls *)

\* a separate HashGraph with the triples the open MutTransaction of t shows
Shadow(t) == HashGraph_from_iter(View(store, Tx(t)))

\* after the step, the MutTransaction of t shows what the HashGraph g holds
Refines(t, g) ==
    /\ MutTransaction_iter(store', Tx(t)') = HashGraph_iter(g)
    /\ MutTransaction_len(store', Tx(t)') = HashGraph_len(g)
    /\ \A tr \in TripleUniverse :
          MutTransaction_contains(store', Tx(t)', tr) <=> HashGraph_contains(g, tr)

-----------------------------------------------------------------------------
(* What the observers of the store see *)

\* C29: commit is atomic for observers. While a read-only Transaction is held
\* or a cached query is evaluated, no commit is under way, and the store is
\* exactly the store after revision whole commits: no observer sees a store to
\* which only a part of a diff is applied, nor a store with a revision that
\* does not belong to it.
C29_AtomicCommit ==
    (Readers \cup Evaluators) # {} =>
        /\ Writers = {}
        /\ ~wlocked
        /\ Len(hist) = revision + 1
        /\ store = StoreAt(revision)
        /\ HashGraph_iter(store) = committed

\* C29 witness: after two commits, the second of which applied a removal and
\* an insertion, one thread holds a Transaction and another evaluates a
\* cached query.
C29_Witness ==
    /\ Readers # {}
    /\ Evaluators # {}
    /\ revision = 2
    /\ HashGraph_iter(StoreAt(1)) \ HashGraph_iter(store) # {}
    /\ HashGraph_iter(store) \ HashGraph_iter(StoreAt(1)) # {}

-----------------------------------------------------------------------------
(* The blocking calls with their waiting made explicit: a thread that calls
   transaction, mut_transaction, cached_query or update first waits in
   RwLock::read or RwLock::write (its pc is the name of the call) and returns
   once the lock is granted. Three threads, so that read guards can overlap. *)

LiveThreads == {"t1", "t2", "t3"}

\* the calls a thread can be blocked in
BlockingCalls == {"transaction", "mut_transaction", "cached_query", "update"}

LiveInit ==
    /\ store \in InitStores
    /\ revision = 0
    /\ wlocked = FALSE
    /\ rcount = 0
    /\ poisoned = FALSE
    /\ pc = [t \in LiveThreads |-> "idle"]
    /\ added = [t \in LiveThreads |-> HashGraph_new]
    /\ removed = [t \in LiveThreads |-> HashGraph_new]
    /\ tq = [t \in LiveThreads |-> NoQuery]
    /\ cq = [q \in Queries |-> [live |-> FALSE, result |-> 0, current_revision |-> 0]]
    /\ hist = << store >>
    /\ committed = HashGraph_iter(store)
    /\ last = Returned("new", "ok", FALSE)

\* the thread enters the call and waits for the lock
Waits(t, op, q) ==
    /\ pc[t] = "idle"
    /\ pc' = [pc EXCEPT ![t] = op]
    /\ tq' = [tq EXCEPT ![t] = q]
    /\ UNCHANGED << store, revision, wlocked, rcount, poisoned, added, removed, cq,
                    hist, committed, last >>

\* the writers that are waiting or at work
PendingWriters == { u \in LiveThreads : pc[u] \in {"mut_transaction"} \cup WriterPcs }

transaction_waits(t) ==
    /\ tq[t] = NoQuery
    /\ Waits(t, "transaction", NoQuery)

mut_transaction_waits(t) ==
    /\ revision + Cardinality(PendingWriters) < MaxRevision
    /\ Waits(t, "mut_transaction", NoQuery)

cached_query_waits(t, q) ==
    /\ ~cq[q].live
    /\ \A u \in LiveThreads : tq[u] # q
    /\ Waits(t, "cached_query", q)

update_waits(t, q) ==
    /\ cq[q].live
    /\ \A u \in LiveThreads : tq[u] # q
    /\ Waits(t, "update", q)

\* self.0.read() returns: Transaction::new(guard)
transaction_returns(t) ==
    /\ pc[t] = "transaction"
    /\ CanRead
    /\ Transaction_new("transaction", t)

\* a mut_transaction that is handed the lock as soon as no writer holds it
mut_transaction_returns_among_readers(t) ==
    /\ pc[t] = "mut_transaction"
    /\ ~wlocked
    /\ MutTransaction_start("mut_transaction", t)

\* self.0.write() returns: MutTransaction::new(guard)
mut_transaction_returns(t) ==
    /\ pc[t] = "mut_transaction"
    /\ CanWrite
    /\ MutTransaction_start("mut_transaction", t)

\* self.0.read() returns in cached_query: CachedQuery::new evaluates next
cached_query_locks(t) ==
    /\ pc[t] = "cached_query"
    /\ CanRead
    /\ CachedQuery_start(t, tq[t])

\* self.graph.0.read() returns in update
update_locks(t) ==
    /\ pc[t] = "update"
    /\ CanRead
    /\ rcount' = rcount + 1
    /\ pc' = [pc EXCEPT ![t] = "cq_update"]
    /\ UNCHANGED << store, revision, wlocked, poisoned, added, removed, tq, cq,
                    hist, committed, last >>

\* the steps that are granted the lock
Acquires(t) ==
    \/ transaction_returns(t)
    \/ mut_transaction_returns(t)
    \/ cached_query_locks(t)
    \/ update_locks(t)

\* the steps of a thread that holds the lock, up to its release
Proceeds(t) ==
    \/ drop_transaction(t)
    \/ drop_mut_transaction(t)
    \/ commit_remove_all(t)
    \/ commit_extend(t)
    \/ commit_revision(t)
    \/ CachedQuery_new(t)
    \/ update_guarded(t)

LiveNext ==
    \/ \E t \in LiveThreads : transaction_waits(t)
    \/ \E t \in LiveThreads : mut_transaction_waits(t)
    \/ \E t \in LiveThreads, q \in Queries : cached_query_waits(t, q)
    \/ \E t \in LiveThreads, q \in Queries : update_waits(t, q)
    \/ \E t \in LiveThreads : transaction_returns(t)
    \/ \E t \in LiveThreads : mut_transaction_returns(t)
    \/ \E t \in LiveThreads : cached_query_locks(t)
    \/ \E t \in LiveThreads : update_locks(t)
    \/ \E t \in LiveThreads : drop_transaction(t)
    \/ \E t \in LiveThreads : drop_mut_transaction(t)
    \/ \E t \in LiveThreads : commit_remove_all(t)
    \/ \E t \in LiveThreads : commit_extend(t)
    \/ \E t \in LiveThreads : commit_revision(t)
    \/ \E t \in LiveThreads : CachedQuery_new(t)
    \/ \E t \in LiveThreads : update_guarded(t)

\* every holder goes on to release the lock, and a waiting thread that can be
\* granted the lock again and again is granted it
LiveFairness ==
    \A t \in LiveThreads :
        /\ WF_vars(Proceeds(t))
        /\ SF_vars(Acquires(t))

LiveSpec == LiveInit /\ [][LiveNext]_vars /\ LiveFairness

\* the thread has the lock, or has returned from a call that released it
ReadLocked(t) == pc[t] \in {"reading", "cq_new", "cq_update"}
WriteLocked(t) == pc[t] \in WriterPcs

\* no call is granted a lock that conflicts with a lock another thread holds
NoConflict ==
    \A t, u \in LiveThreads :
        (t # u /\ WriteLocked(t)) => (~WriteLocked(u) /\ ~ReadLocked(u))

-----------------------------------------------------------------------------
(* RwLock::read and RwLock::write called by a thread that already holds a     *)
(* guard of the same lock. transaction(), mut_transaction(), cached_query()  *)
(* and update() hand the call to the lock without looking at what the        *)
(* calling thread holds. The lock's contract: a writer that waits "might or  *)
(* might not block concurrent calls to read", and read and write "might      *)
(* panic when called if the lock is already held by the current thread".     *)
(* Both choices are taken when the call is made and are part of the state:   *)
(* a waiting writer is queued ahead of later readers or it is not, and a     *)
(* call by a holder panics at once or waits.                                 *)

\* what a thread holds while it makes a call
Holdings == {"idle", "reading", "writing"}

\* the position of a thread that holds `held` and waits inside `op`
WaitPc ==
    [ idle    |-> [ transaction            |-> "transaction",
                    mut_transaction        |-> "mut_transaction",
                    mut_transaction_queued |-> "mut_transaction_queued",
                    cached_query           |-> "cached_query",
                    update                 |-> "update" ],
      reading |-> [ transaction            |-> "reading/transaction",
                    mut_transaction        |-> "reading/mut_transaction",
                    mut_transaction_queued |-> "reading/mut_transaction_queued",
                    cached_query           |-> "reading/cached_query",
                    update                 |-> "reading/update" ],
      writing |-> [ transaction            |-> "writing/transaction",
                    mut_transaction        |-> "writing/mut_transaction",
                    mut_transaction_queued |-> "writing/mut_transaction_queued",
                    cached_query           |-> "writing/cached_query",
                    update                 |-> "writing/update" ] ]

WriteCalls == {"mut_transaction", "mut_transaction_queued"}
ReadCalls == {"transaction", "cached_query", "update"}

\* the positions of the threads that wait inside op while they hold `held`
WaitingIn(held, ops) == { WaitPc[held][op] : op \in ops }

\* what the thread at a waiting position holds
HeldAt(p) ==
    IF p \in WaitingIn("reading", WriteCalls \cup ReadCalls) THEN "reading"
    ELSE IF p \in WaitingIn("writing", WriteCalls \cup ReadCalls) THEN "writing"
    ELSE "idle"

\* the position of a thread whose Transaction was opened while it held `held`
OpenPc == [ idle |-> "reading", reading |-> "reading/reading", writing |-> "writing/reading" ]

\* the position of a thread whose MutTransaction was opened while it held `held`
OpenMutPc == [ idle |-> "writing", reading |-> "reading/writing", writing |-> "writing/writing" ]

WaitingPcs == UNION { WaitingIn(h, WriteCalls \cup ReadCalls) : h \in Holdings }

\* a writer waits and later calls to read are held back behind it
WriterQueued ==
    \E u \in Threads, h \in Holdings : pc[u] = WaitPc[h]["mut_transaction_queued"]

\* read() is granted although the calling thread holds the write guard
RwLock_read_reentrant == ~WriterQueued

\* read() is granted: no writer holds the lock and none is queued ahead
RwLock_read == ~wlocked /\ ~WriterQueued

\* write() is granted: nobody holds the lock
RwLock_write == ~wlocked /\ rcount = 0

\* the writers that wait or are at work
WritersPending ==
    { u \in Threads : pc[u] \in WriterPcs \cup UNION { WaitingIn(h, WriteCalls) : h \in Holdings } }

\* the call panics: the frames of the thread unwind and drop what it holds; a
\* write guard dropped while panicking poisons the lock, a read guard does not
Unwinds(t, held, op) ==
    /\ pc' = [pc EXCEPT ![t] = "idle"]
    /\ tq' = [tq EXCEPT ![t] = NoQuery]
    /\ rcount' = IF held = "reading" THEN rcount - 1 ELSE rcount
    /\ wlocked' = IF held = "writing" THEN FALSE ELSE wlocked
    /\ poisoned' = (poisoned \/ held = "writing")
    /\ added' = [added EXCEPT ![t] = HashGraph_new]
    /\ removed' = [removed EXCEPT ![t] = HashGraph_new]
    /\ last' = Returned(op, "panic", FALSE)
    /\ UNCHANGED << store, revision, cq, hist, committed >>

\* the thread enters the call and waits for the lock, or the lock finds that
\* the calling thread holds it already and panics
Calls(t, op, q, panics) ==
    /\ pc[t] \in Holdings
    /\ IF panics
       THEN /\ pc[t] # "idle"
            /\ Unwinds(t, pc[t], op)
       ELSE /\ pc' = [pc EXCEPT ![t] = WaitPc[pc[t]][op]]
            /\ tq' = [tq EXCEPT ![t] = q]
            /\ UNCHANGED << store, revision, wlocked, rcount, poisoned, added,
                            removed, cq, hist, committed, last >>

call_transaction(t, panics) ==
    /\ tq[t] = NoQuery
    /\ Calls(t, "transaction", NoQuery, panics)

call_mut_transaction(t, queued, panics) ==
    /\ revision + Cardinality(WritersPending) < MaxRevision
    /\ Calls(t, IF queued THEN "mut_transaction_queued" ELSE "mut_transaction",
             NoQuery, panics)

call_cached_query(t, q, panics) ==
    /\ ~cq[q].live
    /\ \A u \in Threads : tq[u] # q
    /\ Calls(t, "cached_query", q, panics)

call_update(t, q, panics) ==
    /\ cq[q].live
    /\ \A u \in Threads : tq[u] # q
    /\ Calls(t, "update", q, panics)

\* self.graph.read().unwrap() returns in transaction(): Transaction::new(guard)
transaction_acquires(t) ==
    /\ pc[t] \in WaitingIn(HeldAt(pc[t]), {"transaction"})
    /\ RwLock_read
    /\ IF poisoned
       THEN Unwinds(t, HeldAt(pc[t]), "transaction")
       ELSE /\ rcount' = rcount + 1
            /\ pc' = [pc EXCEPT ![t] = OpenPc[HeldAt(pc[t])]]
            /\ last' = Returned("transaction", "Some", FALSE)
            /\ UNCHANGED << store, revision, wlocked, poisoned, added, removed, tq,
                            cq, hist, committed >>

\* self.graph.write()...unwrap() returns in mut_transaction(): MutTransaction::new(guard)
mut_transaction_acquires(t) ==
    /\ pc[t] \in WaitingIn(HeldAt(pc[t]), WriteCalls)
    /\ RwLock_write
    /\ IF poisoned
       THEN Unwinds(t, HeldAt(pc[t]), "mut_transaction")
       ELSE /\ wlocked' = TRUE
            /\ pc' = [pc EXCEPT ![t] = OpenMutPc[HeldAt(pc[t])]]
            /\ added' = [added EXCEPT ![t] = MutTransaction_new.added]
            /\ removed' = [removed EXCEPT ![t] = MutTransaction_new.removed]
            /\ last' = Returned("mut_transaction", "Some", FALSE)
            /\ UNCHANGED << store, revision, rcount, poisoned, tq, cq, hist,
                            committed >>

\* self.graph.read().unwrap() returns in cached_query(). A thread that holds
\* nothing runs CachedQuery::new as its next step; for a thread that holds a
\* guard the store cannot change before new has run and dropped the inner
\* guard, and the call is one step.
cached_query_acquires(t) ==
    /\ pc[t] \in WaitingIn(HeldAt(pc[t]), {"cached_query"})
    /\ RwLock_read
    /\ IF poisoned
       THEN Unwinds(t, HeldAt(pc[t]), "cached_query")
       ELSE IF HeldAt(pc[t]) = "idle"
       THEN CachedQuery_start(t, tq[t])
       ELSE /\ cq' = [cq EXCEPT ![tq[t]] = [live |-> TRUE, result |-> Query(store),
                                            current_revision |-> revision]]
            /\ pc' = [pc EXCEPT ![t] = HeldAt(pc[t])]
            /\ tq' = [tq EXCEPT ![t] = NoQuery]
            /\ last' = Returned("cached_query", "Some", TRUE)
            /\ UNCHANGED << store, revision, wlocked, rcount, poisoned, added,
                            removed, hist, committed >>

\* `if let Ok(guard) = self.graph.graph.read()` in update(): on a poisoned
\* lock the body is skipped and the call returns
update_acquires(t) ==
    /\ pc[t] \in WaitingIn(HeldAt(pc[t]), {"update"})
    /\ RwLock_read
    /\ IF poisoned
       THEN /\ pc' = [pc EXCEPT ![t] = HeldAt(pc[t])]
            /\ tq' = [tq EXCEPT ![t] = NoQuery]
            /\ last' = Returned("update", "ok", FALSE)
            /\ UNCHANGED << store, revision, wlocked, rcount, poisoned, added,
                            removed, cq, hist, committed >>
       ELSE IF HeldAt(pc[t]) = "idle"
       THEN /\ rcount' = rcount + 1
            /\ pc' = [pc EXCEPT ![t] = "cq_update"]
            /\ UNCHANGED << store, revision, wlocked, poisoned, added, removed, tq,
                            cq, hist, committed, last >>
       ELSE /\ IF revision > cq[tq[t]].current_revision
               THEN /\ cq' = [cq EXCEPT ![tq[t]].result = Query(store),
                                        ![tq[t]].current_revision = revision]
                    /\ last' = Returned("update", "ok", TRUE)
               ELSE /\ cq' = cq
                    /\ last' = Returned("update", "ok", FALSE)
            /\ pc' = [pc EXCEPT ![t] = HeldAt(pc[t])]
            /\ tq' = [tq EXCEPT ![t] = NoQuery]
            /\ UNCHANGED << store, revision, wlocked, rcount, poisoned, added,
                            removed, hist, committed >>

\* the Transaction opened last goes out of scope, the first one stays open
drop_inner_transaction(t) ==
    /\ pc[t] \in {OpenPc["reading"], OpenPc["writing"]}
    /\ rcount' = rcount - 1
    /\ pc' = [pc EXCEPT ![t] = IF pc[t] = OpenPc["reading"] THEN "reading" ELSE "writing"]
    /\ UNCHANGED << store, revision, wlocked, poisoned, added, removed, tq, cq,
                    hist, committed, last >>

\* a step that is granted the lock
LockGranted ==
    \E t \in Threads :
        \/ transaction_acquires(t)
        \/ mut_transaction_acquires(t)
        \/ cached_query_acquires(t)
        \/ update_acquires(t)

\* a step of a thread that holds a guard and is inside no call that waits
HolderProceeds ==
    \E t \in Threads :
        \/ drop_transaction(t)
        \/ drop_inner_transaction(t)
        \/ drop_mut_transaction(t)
        \/ commit_remove_all(t)
        \/ commit_extend(t)
        \/ commit_revision(t)
        \/ CachedQuery_new(t)
        \/ update_guarded(t)

ReentrantNext ==
    \/ \E t \in Threads, panics \in BOOLEAN : call_transaction(t, panics)
    \/ \E t \in Threads, queued, panics \in BOOLEAN : call_mut_transaction(t, queued, panics)
    \/ \E t \in Threads, q \in Queries, panics \in BOOLEAN : call_cached_query(t, q, panics)
    \/ \E t \in Threads, q \in Queries, panics \in BOOLEAN : call_update(t, q, panics)
    \/ \E t \in Threads : transaction_acquires(t)
    \/ \E t \in Threads : mut_transaction_acquires(t)
    \/ \E t \in Threads : cached_query_acquires(t)
    \/ \E t \in Threads : update_acquires(t)
    \/ \E t \in Threads : drop_transaction(t)
    \/ \E t \in Threads : drop_inner_transaction(t)
    \/ \E t \in Threads : drop_mut_transaction(t)
    \/ \E t \in Threads : commit_remove_all(t)
    \/ \E t \in Threads : commit_extend(t)
    \/ \E t \in Threads : commit_revision(t)
    \/ \E t \in Threads : CachedQuery_new(t)
    \/ \E t \in Threads : update_guarded(t)

ReentrantSpec == Init /\ [][ReentrantNext]_vars

\* the calls that wait although the lock mode they ask for conflicts with a
\* guard the calling thread holds: any call under a MutTransaction, and
\* mut_transaction() under a Transaction
ConflictingWaits ==
    WaitingIn("writing", WriteCalls \cup ReadCalls) \cup WaitingIn("reading", WriteCalls)

\* the calls that wait while the calling thread holds a guard of any mode
HoldingWaits ==
    WaitingIn("writing", WriteCalls \cup ReadCalls)
        \cup WaitingIn("reading", WriteCalls \cup ReadCalls)

\* a thread waits for the lock, no call can be granted it and no holder can
\* go on to release
Deadlocked ==
    /\ \E t \in Threads : pc[t] \in WaitingPcs
    /\ ~ENABLED LockGranted
    /\ ~ENABLED HolderProceeds

\* a call made under an open MutTransaction of the calling thread never
\* returns: the thread stays inside the call
NeverCompletes ==
    \A t \in Threads :
        pc[t] \in WaitingIn("writing", WriteCalls \cup {"transaction", "update"})
            => pc'[t] = pc[t]

\* C31 as stated: the system is deadlock-free provided no thread calls a
\* blocking acquisition while it holds an open transaction whose lock mode
\* conflicts with the call (every deadlock has a thread inside such a call);
\* and a thread that calls update(), transaction() or mut_transaction() while
\* it holds an open MutTransaction never completes that call.
C31_DeadlockFreeUnlessConflictingReentry ==
    /\ [](Deadlocked => \E t \in Threads : pc[t] \in ConflictingWaits)
    /\ [][NeverCompletes]_vars

\* C31, amended: the system is deadlock-free provided no thread calls a
\* blocking acquisition while it holds an open transaction of any lock mode
\* (every deadlock has a thread inside a call made under a guard it holds);
\* a thread that calls update(), transaction() or mut_transaction() while it
\* holds an open MutTransaction never completes that call.
C31_DeadlockFreeUnlessReentry ==
    /\ [](Deadlocked => \E t \in Threads : pc[t] \in HoldingWaits)
    /\ [][NeverCompletes]_vars

\* C31 witness: a deadlock: one thread waits inside a call it made under its
\* own open MutTransaction, the other thread waits for the lock as well.
C31_Witness ==
    \E t, u \in Threads :
        /\ t # u
        /\ pc[t] \in WaitingIn("writing", {"transaction", "update", "mut_transaction"})
        /\ pc[u] \in WaitingIn("idle", WriteCalls \cup ReadCalls)
        /\ Deadlocked

-----------------------------------------------------------------------------
(* A commit of an empty diff *)

\* the diff of thread t is empty: nothing is staged in either set
EmptyDiff(t) == HashGraph_iter(added[t]) = {} /\ HashGraph_iter(removed[t]) = {}

\* the commit that made the current revision changed no triple
LastCommitWasEmpty ==
    /\ revision >= 1
    /\ HashGraph_iter(StoreAt(revision)) = HashGraph_iter(StoreAt(revision - 1))

\* the three statements of a commit whose diff is empty leave the triples of
\* the store alone, and the last one adds 1 to the revision (at the last
\* statement added has been consumed: the diff was empty if removed is empty
\* and the committed view is the store the transaction was opened on)
EmptyCommitSteps ==
    \A t \in Threads :
        /\ (pc[t] = "writing" /\ pc'[t] = "commit_extend" /\ EmptyDiff(t))
              => /\ HashGraph_iter(store') = HashGraph_iter(store)
                 /\ EmptyDiff(t)'
        /\ (pc[t] = "commit_extend" /\ pc'[t] = "commit_revision" /\ EmptyDiff(t))
              => /\ HashGraph_iter(store') = HashGraph_iter(store)
                 /\ EmptyDiff(t)'
        /\ (/\ pc[t] = "commit_revision" /\ pc'[t] = "idle"
            /\ EmptyDiff(t)
            /\ committed = HashGraph_iter(StoreAt(revision)))
              => /\ HashGraph_iter(store') = HashGraph_iter(StoreAt(revision))
                 /\ revision' = revision + 1
                 /\ LastCommitWasEmpty'

\* C32: a commit of a MutTransaction whose added and removed sets are both
\* empty leaves the triples of the store unchanged and adds 1 to the
\* revision; and every update() call that returns after such a commit, on a
\* cached query that has not seen the new revision, has run the query
\* function.
C32_EmptyCommitAdvancesRevision ==
    [][/\ EmptyCommitSteps
       /\ \A t \in Threads, q \in Queries :
             (/\ LastCommitWasEmpty
              /\ cq[q].current_revision < revision
              /\ \/ pc[t] = "cq_update" /\ tq[t] = q /\ pc'[t] = "idle"
                 \/ update(t, q) /\ pc'[t] = "idle")
                  => /\ last'.ran
                     /\ cq'[q].current_revision = revision]_vars

\* C32 on a lock that is not poisoned: the same, for the update() calls
\* that are handed the read guard.
C32_EmptyCommitAdvancesRevisionUnpoisoned ==
    [][/\ EmptyCommitSteps
       /\ \A t \in Threads :
             (/\ LastCommitWasEmpty
              /\ pc[t] = "cq_update" /\ pc'[t] = "idle"
              /\ cq[tq[t]].current_revision < revision)
                  => /\ last'.ran
                     /\ cq'[tq[t]].current_revision = revision]_vars

\* an update() has re-run the query after a commit of an empty diff
C32_Reached ==
    /\ LastCommitWasEmpty
    /\ last = Returned("update", "ok", TRUE)
    /\ \E q \in Queries : cq[q].live /\ cq[q].current_revision = revision

-----------------------------------------------------------------------------
(* The diff of an open MutTransaction *)

\* the triples staged in the two sets of a diff
Staged(tx) == [added |-> HashGraph_iter(tx.added), removed |-> HashGraph_iter(tx.removed)]

\* added is what the view has and the store has not, removed is what the
\* store has and the view has not
Canonical(g, tx) ==
    LET view == MutTransaction_iter(g, tx)
    IN  /\ HashGraph_iter(tx.added) = view \ HashGraph_iter(g)
        /\ HashGraph_iter(tx.removed) = HashGraph_iter(g) \ view
        /\ HashGraph_iter(tx.added) \cap HashGraph_iter(tx.removed) = {}
        /\ (view = HashGraph_iter(g) => Staged(tx) = Staged(MutTransaction_new))

\* C33: the diff of every open MutTransaction is canonical (added = view
\* minus store, removed = store minus view, the two disjoint, both empty
\* when the view is the store), and so is the diff any insert or remove
\* would leave; insert(t) then remove(t) of a triple the view has not, and
\* remove(t) then insert(t) of a triple the view has, leave the diff as it
\* was.
C33_CanonicalDiff ==
    \A t \in OpenWriters :
        /\ Canonical(store, Tx(t))
        /\ \A tr \in TripleUniverse :
              /\ Canonical(store, MutTransaction_insert(store, Tx(t), tr))
              /\ Canonical(store, MutTransaction_remove(store, Tx(t), tr))
              /\ IF tr \in MutTransaction_iter(store, Tx(t))
                 THEN Staged(MutTransaction_insert(store,
                                 MutTransaction_remove(store, Tx(t), tr), tr))
                          = Staged(Tx(t))
                 ELSE Staged(MutTransaction_remove(store,
                                 MutTransaction_insert(store, Tx(t), tr), tr))
                          = Staged(Tx(t))

\* C33 witness: after a commit, an open transaction whose view has been
\* brought back to the store: a triple of the store and a triple outside it
\* exist, nothing is staged, and the stale keys left in the two sets show
\* that triples were staged and un-staged again.
C33_Witness ==
    \E t \in OpenWriters :
        /\ revision >= 1
        /\ HashGraph_iter(store) # {}
        /\ HashGraph_iter(store) # TripleUniverse
        /\ Staged(Tx(t)) = Staged(MutTransaction_new)
        /\ added[t] # HashGraph_new
        /\ removed[t] # HashGraph_new

-----------------------------------------------------------------------------
(* clear *)

\* the diff after insert has been called for every triple of S
RECURSIVE MutTransaction_extend(_, _, _)
MutTransaction_extend(g, tx, S) ==
    IF S = {} THEN tx
    ELSE LET t == CHOOSE y \in S : TRUE
         IN  MutTransaction_extend(g, MutTransaction_insert(g, tx, t), S \ {t})

\* C34: for every open MutTransaction, the diff that clear() leaves has an
\* empty view (len 0, contains false for every triple, iter yields nothing),
\* a commit of it leaves the store empty, and a commit after the triples of
\* any set S have been inserted on top of it leaves exactly S in the store;
\* the step of clear() itself changes neither the store nor the revision.
C34_Clear ==
    [][\A t \in Threads :
          pc[t] = "writing" =>
              LET cleared == MutTransaction_clear(store, Tx(t))
              IN  /\ MutTransaction_len(store, cleared) = 0
                  /\ \A tr \in TripleUniverse : ~MutTransaction_contains(store, cleared, tr)
                  /\ MutTransaction_iter(store, cleared) = {}
                  /\ MutTransaction_iter_count(store, cleared) = 0
                  /\ HashGraph_iter(MutTransaction_commit(store, cleared)) = {}
                  /\ \A S \in SUBSET TripleUniverse :
                        HashGraph_iter(MutTransaction_commit(store,
                            MutTransaction_extend(store, cleared, S))) = S
                  /\ clear(t) =>
                        /\ store' = store
                        /\ revision' = revision
                        /\ Tx(t)' = cleared]_vars

\* C34 witness: a store that held triples has been cleared and committed
\* with one insert made after the clear: the committed store holds that
\* triple alone, and a transaction opened on it has been cleared again.
C34_Witness ==
    \E t \in OpenWriters :
        /\ revision >= 1
        /\ HashGraph_iter(StoreAt(revision - 1)) # {}
        /\ Cardinality(HashGraph_iter(store)) = 1
        /\ HashGraph_iter(store) \cap HashGraph_iter(StoreAt(revision - 1)) = {}
        /\ HashGraph_iter(removed[t]) = HashGraph_iter(store)
        /\ MutTransaction_iter(store, Tx(t)) = {}

-----------------------------------------------------------------------------
(* A panic inside an open MutTransaction *)

\* C35: a step in which an operation of an open MutTransaction panics (the
\* closure given to retain, or the is_valid assertion of insert, remove,
\* retain, clear or commit) leaves the store and the revision as they are,
\* and they are as they were when the transaction was opened: the store is
\* the store of the last commit, the revision counts the commits, and the
\* diff is gone.
C35_PanicAppliesNothing ==
    [][\A t \in Threads :
          (pc[t] = "writing" /\ pc'[t] = "idle" /\ last'.res = "panic") =>
              /\ store' = store
              /\ revision' = revision
              /\ hist' = hist
              /\ store' = StoreAt(revision')
              /\ Len(hist') = revision' + 1
              /\ Staged(Tx(t))' = Staged(MutTransaction_new)
              /\ poisoned']_vars

\* C35 witness: after a commit, a writer that had staged an addition and a
\* removal has panicked in retain: the lock is poisoned and free.
C35_Witness ==
    /\ poisoned
    /\ ~wlocked
    /\ revision >= 1
    /\ last = Returned("retain", "panic", FALSE)
    /\ HashGraph_iter(store) # {}
    /\ HashGraph_iter(store) # TripleUniverse

-----------------------------------------------------------------------------
(* Clones of a TransactionGraph. A handle is an Arc: the address of a cell    *)
(* that holds the lock, the graph and the revision. Here `store` is the      *)
(* sequence of the cells that exist, `hist` the sequence of the handles that *)
(* exist (each the number of its cell), tq[t] the handle through which the   *)
(* transaction of thread t was opened, cq[q].graph the handle kept by the    *)
(* cached query. `revision` counts the commits made through any handle and   *)
(* `committed` is the triple set the last of them left.                      *)

MaxHandles == 3

NoHandle == 0

\* Arc::new(RwLock::new(IntTransactionGraph::new(graph)))
IntTransactionGraph_new(graph) ==
    [graph |-> graph, revision |-> 0, writer |-> FALSE, readers |-> 0, poisoned |-> FALSE]

CloneInit ==
    /\ store \in { << IntTransactionGraph_new(g) >> : g \in InitStores }
    /\ hist = << 1 >>
    /\ revision = 0
    /\ wlocked = FALSE
    /\ rcount = 0
    /\ poisoned = FALSE
    /\ pc = [t \in Threads |-> "idle"]
    /\ added = [t \in Threads |-> HashGraph_new]
    /\ removed = [t \in Threads |-> HashGraph_new]
    /\ tq = [t \in Threads |-> NoHandle]
    /\ cq = [q \in Queries |-> [live |-> FALSE, result |-> 0, current_revision |-> 0,
                                graph |-> NoHandle]]
    /\ committed = HashGraph_iter(store[1].graph)
    /\ last = Returned("new", "ok", FALSE)

Handles == 1..Len(hist)

\* the cell behind the transaction of thread t
CellOf(t) == hist[tq[t]]

\* a clone that copies the graph, the revision and a fresh lock into a cell
\* of its own
TransactionGraph_clone_deep(h) ==
    /\ Len(hist) < MaxHandles
    /\ store' = Append(store, [store[hist[h]] EXCEPT !.writer = FALSE, !.readers = 0])
    /\ hist' = Append(hist, Len(store) + 1)
    /\ UNCHANGED << revision, wlocked, rcount, poisoned, pc, added, removed, tq, cq,
                    committed, last >>

\* Clone for TransactionGraph: Self { graph: self.graph.clone() }, an Arc::clone
TransactionGraph_clone(h) ==
    /\ Len(hist) < MaxHandles
    /\ hist' = Append(hist, hist[h])
    /\ UNCHANGED << store, revision, wlocked, rcount, poisoned, pc, added, removed,
                    tq, cq, committed, last >>

\* a call through handle h panics on the PoisonError; nothing is held
PanicsOn(op) ==
    /\ last' = Returned(op, "panic", FALSE)
    /\ UNCHANGED << store, hist, revision, wlocked, rcount, poisoned, pc, added,
                    removed, tq, cq, committed >>

\* handle.transaction(): returns when no writer holds the lock of the cell
transaction_on(t, h) ==
    /\ pc[t] = "idle"
    /\ ~store[hist[h]].writer
    /\ IF store[hist[h]].poisoned
       THEN PanicsOn("transaction")
       ELSE /\ store' = [store EXCEPT ![hist[h]].readers = @ + 1]
            /\ pc' = [pc EXCEPT ![t] = "reading"]
            /\ tq' = [tq EXCEPT ![t] = h]
            /\ last' = Returned("transaction", "Some", FALSE)
            /\ UNCHANGED << hist, revision, wlocked, rcount, poisoned, added,
                            removed, cq, committed >>

drop_transaction_on(t) ==
    /\ pc[t] = "reading"
    /\ store' = [store EXCEPT ![CellOf(t)].readers = @ - 1]
    /\ pc' = [pc EXCEPT ![t] = "idle"]
    /\ tq' = [tq EXCEPT ![t] = NoHandle]
    /\ UNCHANGED << hist, revision, wlocked, rcount, poisoned, added, removed, cq,
                    committed, last >>

\* handle.mut_transaction(): returns when nobody holds the lock of the cell
mut_transaction_on(t, h) ==
    /\ pc[t] = "idle"
    /\ revision < MaxRevision
    /\ ~store[hist[h]].writer
    /\ store[hist[h]].readers = 0
    /\ IF store[hist[h]].poisoned
       THEN PanicsOn("mut_transaction")
       ELSE /\ store' = [store EXCEPT ![hist[h]].writer = TRUE]
            /\ pc' = [pc EXCEPT ![t] = "writing"]
            /\ tq' = [tq EXCEPT ![t] = h]
            /\ added' = [added EXCEPT ![t] = MutTransaction_new.added]
            /\ removed' = [removed EXCEPT ![t] = MutTransaction_new.removed]
            /\ last' = Returned("mut_transaction", "Some", FALSE)
            /\ UNCHANGED << hist, revision, wlocked, rcount, poisoned, cq,
                            committed >>

\* the MutTransaction of t leaves the diff tx
StagedOn(t, tx) ==
    /\ pc[t] = "writing"
    /\ added' = [added EXCEPT ![t] = tx.added]
    /\ removed' = [removed EXCEPT ![t] = tx.removed]
    /\ UNCHANGED << store, hist, revision, wlocked, rcount, poisoned, pc, tq, cq,
                    committed, last >>

insert_on(t, tr) ==
    /\ pc[t] = "writing"
    /\ StagedOn(t, MutTransaction_insert(store[CellOf(t)].graph, Tx(t), tr))

remove_on(t, tr) ==
    /\ pc[t] = "writing"
    /\ StagedOn(t, MutTransaction_remove(store[CellOf(t)].graph, Tx(t), tr))

\* the MutTransaction is dropped, and with it the write guard: by going out
\* of scope, or during a panic of its thread, which poisons the lock
drop_mut_transaction_on(t, panicking) ==
    /\ pc[t] = "writing"
    /\ store' = [store EXCEPT ![CellOf(t)].writer = FALSE,
                              ![CellOf(t)].poisoned = panicking]
    /\ pc' = [pc EXCEPT ![t] = "idle"]
    /\ tq' = [tq EXCEPT ![t] = NoHandle]
    /\ added' = [added EXCEPT ![t] = HashGraph_new]
    /\ removed' = [removed EXCEPT ![t] = HashGraph_new]
    /\ last' = IF panicking THEN Returned("retain", "panic", FALSE) ELSE last
    /\ UNCHANGED << hist, revision, wlocked, rcount, poisoned, cq, committed >>

\* MutTransaction::commit; the write lock is held from the first statement to
\* the last, and the three statements are one step for every other thread
commit_on(t) ==
    /\ pc[t] = "writing"
    /\ store' = [store EXCEPT
                    ![CellOf(t)].graph = MutTransaction_commit(@, Tx(t)),
                    ![CellOf(t)].revision = @ + 1,
                    ![CellOf(t)].writer = FALSE]
    /\ revision' = revision + 1
    /\ committed' = HashGraph_iter(MutTransaction_commit(store[CellOf(t)].graph, Tx(t)))
    /\ pc' = [pc EXCEPT ![t] = "idle"]
    /\ tq' = [tq EXCEPT ![t] = NoHandle]
    /\ added' = [added EXCEPT ![t] = HashGraph_new]
    /\ removed' = [removed EXCEPT ![t] = HashGraph_new]
    /\ last' = Returned("commit", "ok", FALSE)
    /\ UNCHANGED << hist, wlocked, rcount, poisoned, cq >>

\* handle.cached_query(query): read guard, CachedQuery::new(self.clone(), guard,
\* query), guard dropped; no writer can come in between
cached_query_on(t, q, h) ==
    /\ pc[t] = "idle"
    /\ ~cq[q].live
    /\ Len(hist) < MaxHandles
    /\ ~store[hist[h]].writer
    /\ IF store[hist[h]].poisoned
       THEN PanicsOn("cached_query")
       ELSE /\ hist' = Append(hist, hist[h])
            /\ cq' = [cq EXCEPT ![q] = [live |-> TRUE,
                                        result |-> Query(store[hist[h]].graph),
                                        current_revision |-> store[hist[h]].revision,
                                        graph |-> Len(hist) + 1]]
            /\ last' = Returned("cached_query", "Some", TRUE)
            /\ UNCHANGED << store, revision, wlocked, rcount, poisoned, pc, added,
                            removed, tq, committed >>

\* CachedQuery::update: `if let Ok(guard) = self.graph.graph.read()`, the
\* comparison of the revisions, the query, the drop of the guard
update_on(t, q) ==
    /\ pc[t] = "idle"
    /\ cq[q].live
    /\ ~store[hist[cq[q].graph]].writer
    /\ IF /\ ~store[hist[cq[q].graph]].poisoned
          /\ store[hist[cq[q].graph]].revision > cq[q].current_revision
       THEN /\ cq' = [cq EXCEPT ![q].result = Query(store[hist[cq[q].graph]].graph),
                                ![q].current_revision = store[hist[cq[q].graph]].revision]
            /\ last' = Returned("update", "ok", TRUE)
       ELSE /\ cq' = cq
            /\ last' = Returned("update", "ok", FALSE)
    /\ UNCHANGED << store, hist, revision, wlocked, rcount, poisoned, pc, added,
                    removed, tq, committed >>

CloneNext ==
    \/ \E h \in Handles : TransactionGraph_clone(h)
    \/ \E t \in Threads, h \in Handles : transaction_on(t, h)
    \/ \E t \in Threads : drop_transaction_on(t)
    \/ \E t \in Threads, h \in Handles : mut_transaction_on(t, h)
    \/ \E t \in Threads, tr \in TripleUniverse : insert_on(t, tr)
    \/ \E t \in Threads, tr \in TripleUniverse : remove_on(t, tr)
    \/ \E t \in Threads, panicking \in BOOLEAN : drop_mut_transaction_on(t, panicking)
    \/ \E t \in Threads : commit_on(t)
    \/ \E t \in Threads, q \in Queries, h \in Handles : cached_query_on(t, q, h)
    \/ \E t \in Threads, q \in Queries : update_on(t, q)

CloneSpec == CloneInit /\ [][CloneNext]_vars

\* every handle, and the handle kept by every cached query, is the address
\* of one and the same cell; that cell holds what the last commit through
\* any handle left, and its revision counts the commits through all of them
OneCell ==
    /\ \A h \in Handles : hist[h] = hist[1]
    /\ \A q \in Queries : cq[q].live => cq[q].graph \in Handles
    /\ \A h \in Handles :
          /\ HashGraph_iter(store[hist[h]].graph) = committed
          /\ store[hist[h]].revision = revision

\* while a MutTransaction opened through one handle is open, no other
\* transaction is open and no acquisition through any handle is granted
WriterBlocksAllHandles ==
    \A t \in Threads :
        pc[t] = "writing" =>
            \A u \in Threads \ {t} :
                /\ pc[u] = "idle"
                /\ \A h \in Handles :
                      /\ ~ENABLED transaction_on(u, h)
                      /\ ~ENABLED mut_transaction_on(u, h)
                      /\ \A q \in Queries : ~ENABLED cached_query_on(u, q, h)
                /\ \A q \in Queries : ~ENABLED update_on(u, q)

\* an update() call of thread t on query q returns
UpdateReturns(t, q) == update_on(t, q)

\* C36: all handles and the handles of all cached queries share one cell
\* (store, revision, lock); what a commit through one handle leaves is the
\* graph and the revision behind every handle; a MutTransaction opened
\* through one handle blocks the acquisitions through all handles; and every
\* update() call that returns leaves its cached query with the revision and
\* the query result of the last commit made through any handle.
C36_ClonesShareStore ==
    /\ [](OneCell /\ WriterBlocksAllHandles)
    /\ [][\A t \in Threads, q \in Queries :
             UpdateReturns(t, q) =>
                 /\ cq'[q].current_revision = revision
                 /\ cq'[q].result = Cardinality(committed)]_vars

\* C36 on locks that are not poisoned: the same, for the update() calls that
\* are handed the read guard.
C36_ClonesShareStoreUnpoisoned ==
    /\ [](OneCell /\ WriterBlocksAllHandles)
    /\ [][\A t \in Threads, q \in Queries :
             (UpdateReturns(t, q) /\ ~store[hist[cq[q].graph]].poisoned) =>
                 /\ cq'[q].current_revision = revision
                 /\ cq'[q].result = Cardinality(committed)]_vars

\* a cached query created through one handle has picked up, by update(), a
\* commit made through another handle, while a transaction is open through a
\* third handle
C36_Reached ==
    \E q \in Queries, t \in Threads :
        /\ cq[q].live
        /\ cq[q].current_revision = revision
        /\ revision >= 1
        /\ last = Returned("update", "ok", TRUE)
        /\ pc[t] = "reading"
        /\ tq[t] # cq[q].graph
        /\ Len(hist) = MaxHandles

-----------------------------------------------------------------------------
(* The defaults of the Graph trait beside the methods HashGraph overrides.   *)
(* In this specification `store` holds one graph of each HashGraph, the      *)
(* two-level one of hash_graph/mod.rs and the three-level one of             *)
(* hash_graph.rs; every insert, remove and retain is called on both.         *)

\* Graph::len: self.iter().count()
Graph_len(iter) == Len(iter)

\* Graph::is_empty: self.len() == 0
Graph_is_empty(iter) == Graph_len(iter) = 0

\* Graph::contains: self.iter().any(|(s, p, o)| s == subject && p == predicate && o == object)
Graph_contains(iter, t) ==
    \E i \in DOMAIN iter : iter[i][1] = t[1] /\ iter[i][2] = t[2] /\ iter[i][3] = t[3]

\* Graph::retain on the two-level graph: the triples for which f is false are
\* collected from the iterator, then remove_all of them
Graph2_retain(g, f) ==
    LET removed_nodes == { t \in Range(HashGraph2_triples(g)) : t \notin f }
    IN  HashGraph2_remove_all(g, SeqOfSet(removed_nodes))

PairInit ==
    /\ store = [two_level |-> HashGraph2_new, three_level |-> HashGraph_new]
    /\ revision = 0
    /\ wlocked = FALSE
    /\ rcount = 0
    /\ poisoned = FALSE
    /\ pc = [t \in Threads |-> "idle"]
    /\ added = [t \in Threads |-> HashGraph_new]
    /\ removed = [t \in Threads |-> HashGraph_new]
    /\ tq = [t \in Threads |-> NoQuery]
    /\ cq = [q \in Queries |-> [live |-> FALSE, result |-> 0, current_revision |-> 0]]
    /\ hist = << >>
    /\ committed = {}
    /\ last = Returned("new", "ok", FALSE)

pair_insert(tr) ==
    /\ store' = [two_level   |-> HashGraph2_insert(store.two_level, tr),
                 three_level |-> HashGraph_insert(store.three_level, tr)]
    /\ GraphRest

pair_remove(tr) ==
    /\ store' = [two_level   |-> HashGraph2_remove(store.two_level, tr),
                 three_level |-> HashGraph_remove(store.three_level, tr)]
    /\ GraphRest

pair_retain(f) ==
    /\ store' = [two_level   |-> HashGraph2_retain(store.two_level, f),
                 three_level |-> HashGraph_retain(store.three_level, f)]
    /\ GraphRest

PairNext ==
    \/ \E tr \in GraphTriples : pair_insert(tr)
    \/ \E tr \in GraphTriples : pair_remove(tr)
    \/ \E f \in SUBSET GraphTriples : pair_retain(f)

PairSpec == PairInit /\ [][PairNext]_vars

\* C37: on every reachable HashGraph, two-level and three-level, len() is
\* the count of iter(), is_empty() is len() == 0, contains(s, p, o) is
\* whether iter() yields an equal triple, for every triple; and for every
\* closure f the overridden retain(f) leaves the triples the trait's default
\* retain(f) leaves.
C37_OptimizedAgreesWithDefault ==
    LET g2    == store.two_level
        g3    == store.three_level
        iter2 == HashGraph2_triples(g2)
        iter3 == SeqOfSet(HashGraph_iter(g3))
    IN  /\ HashGraph2_len(g2) = Graph_len(iter2)
        /\ HashGraph_len(g3) = Graph_len(iter3)
        /\ HashGraph2_is_empty(g2) = Graph_is_empty(iter2)
        /\ HashGraph_is_empty(g3) = Graph_is_empty(iter3)
        /\ HashGraph2_is_empty(g2) = (HashGraph2_len(g2) = 0)
        /\ HashGraph_is_empty(g3) = (HashGraph_len(g3) = 0)
        /\ \A tr \in GraphTriples :
              /\ HashGraph2_contains_triple(g2, tr) = Graph_contains(iter2, tr)
              /\ HashGraph_contains(g3, tr) = Graph_contains(iter3, tr)
        /\ \A f \in SUBSET GraphTriples :
              /\ Range(HashGraph2_triples(HashGraph2_retain(g2, f)))
                    = Range(HashGraph2_triples(Graph2_retain(g2, f)))
              /\ HashGraph_iter(HashGraph_retain(g3, f)) = HashGraph_iter(Graph_retain(g3, f))

\* C37 witness: both graphs hold two triples and an entry that removals have
\* left empty: a subject with an empty pair set in the two-level graph, a
\* predicate with an empty object set in the three-level graph.
C37_Witness ==
    /\ HashGraph2_len(store.two_level) = 2
    /\ HashGraph_len(store.three_level) = 2
    /\ \E s \in DOMAIN store.two_level : store.two_level[s] = {}
    /\ \E s \in DOMAIN store.three_level :
          \E p \in DOMAIN store.three_level[s] : store.three_level[s][p] = {}

-----------------------------------------------------------------------------
(* graph/queries.rs: the subjects of the two-level HashGraph *)

\* self.nodes.contains_key(node)
HashGraph2_contains_subject(g, node) == node \in DOMAIN g

\* self.nodes.keys(): every key once
HashGraph2_subjects(g) == SeqOfSet(DOMAIN g)

\* self.nodes.get(subject).into_iter().map(|r| r.iter()).flatten().map(..):
\* nothing for a subject that is no key
HashGraph2_relationships(g, subject) ==
    IF subject \in DOMAIN g
    THEN LET rels == SeqOfSet(g[subject])
         IN  [i \in 1..Len(rels) |-> << subject, rels[i][1], rels[i][2] >>]
    ELSE << >>

\* how often the sequence yields x
Occurrences(seq, x) == Cardinality({ i \in DOMAIN seq : seq[i] = x })

\* the graph holds a triple with subject n
HasTripleWithSubject(g, n) == \E t \in Range(HashGraph2_triples(g)) : t[1] = n

\* relationships(n) yields the triples with subject n, each once, and nothing
\* for a node that is no subject
RelationshipsOfSubject(g, n) ==
    /\ Range(HashGraph2_relationships(g, n))
          = { t \in Range(HashGraph2_triples(g)) : t[1] = n }
    /\ NoItemTwice(HashGraph2_relationships(g, n))

\* C38: after any sequence of insert, remove and retain, for every node n,
\* contains_subject(n) is true iff the graph holds a triple with subject n,
\* subjects() yields n once if it does and not at all if it does not, and
\* relationships(n) yields exactly the triples with subject n (nothing when
\* there are none).
C38_SubjectsAreSubjectsOfTriples ==
    \A n \in GraphNodes \cup GraphPredicates :
        /\ HashGraph2_contains_subject(store, n) <=> HasTripleWithSubject(store, n)
        /\ Occurrences(HashGraph2_subjects(store), n)
              = IF HasTripleWithSubject(store, n) THEN 1 ELSE 0
        /\ RelationshipsOfSubject(store, n)

\* what holds of C38: the subject of every triple is a subject, yielded by
\* subjects() once, no node is yielded twice, and relationships(n) is exact.
C38_SubjectsIncludeSubjectsOfTriples ==
    \A n \in GraphNodes \cup GraphPredicates :
        /\ HasTripleWithSubject(store, n) => HashGraph2_contains_subject(store, n)
        /\ Occurrences(HashGraph2_subjects(store), n)
              = IF HashGraph2_contains_subject(store, n) THEN 1 ELSE 0
        /\ RelationshipsOfSubject(store, n)

-----------------------------------------------------------------------------
(* hash.rs: HashTripleIter. An Option is a sequence of at most one item.     *)
(* In this specification `store` is a HashGraph of hash.rs built by          *)
(* add_triple and remove_triple, `committed` the HashTripleIter that borrows *)
(* it (or no iterator), `hist` what the calls of next() have returned.       *)
(* HashMap::keys and HashSet::iter yield in an order that the tables fix     *)
(* when the iterator is made: any order.                                     *)

IterSubjects == { "a", "b", "c" }
IterPairs == { << "pa", "a" >>, << "pb", "a" >> }
IterTriples == { << s, pr[1], pr[2] >> : s \in IterSubjects, pr \in IterPairs }

\* how many times next() is called after it has returned None
MaxNone == 2

NoIter == << >>

\* the orders in which an iterator of a hash table can yield the set S
Orders(S) ==
    { seq \in [1..Cardinality(S) -> S] : \A i, j \in DOMAIN seq : i # j => seq[i] # seq[j] }

\* HashTripleIter::next_subject: keys.next().map(|subject| (subject, nodes[subject].iter()))
HashTripleIter_next_subject(it) ==
    IF it.keys = << >>
    THEN [it EXCEPT !.relationships = << >>]
    ELSE [it EXCEPT !.keys = Tail(@),
                    !.relationships = << [subject |-> Head(it.keys),
                                          rels    |-> it.order[Head(it.keys)]] >>]

\* HashTripleIter::new: the keys of the graph, then next_subject
HashTripleIter_new(keys, order) ==
    HashTripleIter_next_subject([keys |-> keys, order |-> order, relationships |-> << >>])

\* next with `if` for `while`: after the pairs of a subject it looks at one
\* more subject only
HashTripleIter_next_once(it) ==
    LET step(i) ==
            IF i.relationships = << >> THEN [iter |-> i, value |-> << >>]
            ELSE IF i.relationships[1].rels # << >>
            THEN [iter  |-> [i EXCEPT !.relationships[1].rels = Tail(@)],
                  value |-> << << i.relationships[1].subject,
                                  Head(i.relationships[1].rels)[1],
                                  Head(i.relationships[1].rels)[2] >> >>]
            ELSE [iter |-> HashTripleIter_next_subject(i), value |-> << >>]
        first == step(it)
    IN  IF first.value # << >> \/ it.relationships = << >> THEN first
        ELSE step(first.iter)

\* HashTripleIter::next: while relationships.is_some() && next_value.is_none()
RECURSIVE HashTripleIter_next(_)
HashTripleIter_next(it) ==
    IF it.relationships = << >>
    THEN [iter |-> it, value |-> << >>]
    ELSE IF it.relationships[1].rels # << >>
    THEN [iter  |-> [it EXCEPT !.relationships[1].rels = Tail(@)],
          value |-> << << it.relationships[1].subject,
                          Head(it.relationships[1].rels)[1],
                          Head(it.relationships[1].rels)[2] >> >>]
    ELSE HashTripleIter_next(HashTripleIter_next_subject(it))

IterInit ==
    /\ store = HashGraph2_new
    /\ revision = 0
    /\ wlocked = FALSE
    /\ rcount = 0
    /\ poisoned = FALSE
    /\ pc = [t \in Threads |-> "idle"]
    /\ added = [t \in Threads |-> HashGraph_new]
    /\ removed = [t \in Threads |-> HashGraph_new]
    /\ tq = [t \in Threads |-> NoQuery]
    /\ cq = [q \in Queries |-> [live |-> FALSE, result |-> 0, current_revision |-> 0]]
    /\ hist = << >>
    /\ committed = NoIter
    /\ last = Returned("new", "ok", FALSE)

IterRest ==
    UNCHANGED << revision, wlocked, rcount, poisoned, pc, added, removed, tq, cq, last >>

\* add_triple and remove_triple need &mut self: no iterator borrows the graph
add_triple(tr) ==
    /\ committed = NoIter
    /\ store' = HashGraph2_insert(store, tr)
    /\ UNCHANGED << hist, committed >>
    /\ IterRest

remove_triple(tr) ==
    /\ committed = NoIter
    /\ store' = HashGraph2_remove(store, tr)
    /\ UNCHANGED << hist, committed >>
    /\ IterRest

\* graph.triples(): HashTripleIter::new(self)
triples ==
    /\ committed = NoIter
    /\ \E keys \in Orders(DOMAIN store) :
       \E order \in [DOMAIN store -> UNION { Orders(S) : S \in SUBSET IterPairs }] :
          /\ \A s \in DOMAIN store : order[s] \in Orders(store[s])
          /\ committed' = << HashTripleIter_new(keys, order) >>
    /\ hist' = << >>
    /\ UNCHANGED store
    /\ IterRest

\* the values next() has returned that are None
NonesReturned == { i \in DOMAIN hist : hist[i] = << >> }

\* iter.next()
next ==
    /\ committed # NoIter
    /\ Cardinality(NonesReturned) < MaxNone
    /\ committed' = << HashTripleIter_next(committed[1]).iter >>
    /\ hist' = Append(hist, HashTripleIter_next(committed[1]).value)
    /\ UNCHANGED store
    /\ IterRest

\* the iterator goes out of scope
drop_iter ==
    /\ committed # NoIter
    /\ committed' = NoIter
    /\ hist' = << >>
    /\ UNCHANGED store
    /\ IterRest

IterNext ==
    \/ \E tr \in IterTriples : add_triple(tr)
    \/ \E tr \in IterTriples : remove_triple(tr)
    \/ triples
    \/ next
    \/ drop_iter

IterSpec == IterInit /\ [][IterNext]_vars

\* the triples the calls of next() have yielded so far, in their order
Yielded == SelectSeq(hist, LAMBDA v : v # << >>)

\* the triples stored in the graph
StoredIn(g) == { t \in IterTriples : HashGraph2_contains_triple(g, t) }

\* C39: while a HashTripleIter runs over any reachable graph, next() has
\* yielded stored triples only and none twice; at most len() calls return a
\* triple, so the iteration ends; when next() has returned None every stored
\* triple has been yielded (no subject with an empty pair set has ended it
\* early); and every call after the first None returns None.
C39_HashTripleIter ==
    committed # NoIter =>
        /\ \A i \in DOMAIN Yielded : Yielded[i][1] \in StoredIn(store)
        /\ NoItemTwice(Yielded)
        /\ Len(Yielded) <= HashGraph2_len(store)
        /\ NonesReturned # {} =>
              /\ { Yielded[i][1] : i \in DOMAIN Yielded } = StoredIn(store)
              /\ \A i, j \in DOMAIN hist : (i < j /\ hist[i] = << >>) => hist[j] = << >>
              /\ HashTripleIter_next(committed[1]).value = << >>
        /\ Len(hist) = HashGraph2_len(store) + 1 => hist[Len(hist)] = << >>

\* C39 witness: the graph has a subject with an empty pair set beside two
\* subjects that have triples; the iterator has yielded triples of both and
\* has then returned None twice.
C39_Witness ==
    /\ committed # NoIter
    /\ Cardinality(NonesReturned) = 2
    /\ DOMAIN store = IterSubjects
    /\ \E s \in IterSubjects :
          /\ store[s] = {}
          /\ \E i, j \in DOMAIN Yielded :
                /\ i < j
                /\ Yielded[i][1][1] # s
                /\ Yielded[j][1][1] # s
                /\ Yielded[i][1][1] # Yielded[j][1][1]
                /\ committed[1].order[s] = << >>

====
